---- MODULE Spec2Model ----
(***************************************************************************)
(* Model of the streaming chat relay of desktop/src-tauri/src/lib.rs:      *)
(* chat_stream / run_chat_stream decode a server-sent-event byte stream,   *)
(* rebuild tool calls, accumulate token usage and emit ChatEvents.         *)
(*                                                                         *)
(* Text is modelled at character level.  A byte is a one-character string  *)
(* for ASCII, or the name "x" and two hex digits ("xC3", "xA9") for the    *)
(* bytes 80..FF.  A Rust String is a sequence of chars: ASCII chars are    *)
(* one-character strings, the others are named "U+" and the hex digits of  *)
(* their scalar value ("U+00E9", "U+FFFD", "U+1F600").                     *)
(***************************************************************************)
EXTENDS Integers, Sequences, FiniteSets, TLC

(***************************************************************************)
(* Generic helpers                                                         *)
(***************************************************************************)
None == [some |-> FALSE, v |-> <<>>]
Some(x) == [some |-> TRUE, v |-> x]

Drop(s, n) == SubSeq(s, n + 1, Len(s))
Take(s, n) == SubSeq(s, 1, n)

\* Concatenation of the sequences ss[lo], ..., ss[hi].
RECURSIVE FlattenRange(_, _, _)
FlattenRange(ss, lo, hi) ==
    IF lo > hi THEN <<>>
    ELSE IF lo = hi THEN ss[lo]
    ELSE LET mid == (lo + hi) \div 2
         IN  FlattenRange(ss, lo, mid) \o FlattenRange(ss, mid + 1, hi)
Flatten(ss) == FlattenRange(ss, 1, Len(ss))

(***************************************************************************)
(* Names of bytes and characters                                           *)
(***************************************************************************)
HexDigits == <<"0", "1", "2", "3", "4", "5", "6", "7",
               "8", "9", "A", "B", "C", "D", "E", "F">>
Hex2(n) == HexDigits[(n \div 16) + 1] \o HexDigits[(n % 16) + 1]
Hex4(n) == Hex2(n \div 256) \o Hex2(n % 256)

\* The byte of value n, 128 <= n <= 255, is named "x" and its two hex digits.
ByteName(n) == "x" \o Hex2(n)
\* The value of a named byte.
ByteValue == [b \in {ByteName(n) : n \in 128..255} |->
                 CHOOSE n \in 128..255 : ByteName(n) = b]
\* Value of any byte; ASCII bytes are all below 128 and only that is used.
ByteVal(b) == IF b \in DOMAIN ByteValue THEN ByteValue[b] ELSE 0

\* The char of scalar value cp >= 128 is named "U+" and its hex digits
\* (four at least).
CharName(cp) ==
    "U+" \o (IF cp < 65536 THEN Hex4(cp)
             ELSE IF cp < 1048576 THEN HexDigits[(cp \div 65536) + 1] \o Hex4(cp % 65536)
             ELSE Hex2(cp \div 65536) \o Hex4(cp % 65536))

(***************************************************************************)
(* String::from_utf8_lossy on one chunk of bytes                           *)
(***************************************************************************)
\* First bytes of two-, three- and four-byte sequences (C2..F4); C0, C1 and
\* F5..FF never occur in UTF-8.
LeadBytes == {ByteName(n) : n \in 194..244}
\* Continuation bytes (80..BF).
ContBytes == {ByteName(n) : n \in 128..191}
REPLACEMENT_CHARACTER == "U+FFFD"
E_ACUTE == "U+00E9"

\* Number of bytes of the sequence a lead byte announces.
SeqWidth(v) == IF v < 224 THEN 2 ELSE IF v < 240 THEN 3 ELSE 4

\* Whether w may follow the lead byte v as second byte of its sequence:
\* overlong forms (E0 80..9F, F0 80..8F), surrogates (ED A0..BF) and values
\* above U+10FFFF (F4 90..BF) are excluded.
SecondOk(v, w) ==
    /\ w >= 128 /\ w <= 191
    /\ (v = 224 => w >= 160)
    /\ (v = 237 => w <= 159)
    /\ (v = 240 => w >= 144)
    /\ (v = 244 => w <= 143)

\* Number of bytes of the longest valid prefix of the sequence whose lead
\* byte is bytes[j]: its width when the sequence is complete and valid.
ValidUpTo(bytes, j) ==
    LET v == ByteVal(bytes[j])
        n == SeqWidth(v)
        At(k) == IF j + k <= Len(bytes) THEN ByteVal(bytes[j + k]) ELSE 0
    IN  IF ~SecondOk(v, At(1)) THEN 1
        ELSE IF n = 2 THEN 2
        ELSE IF ~(At(2) >= 128 /\ At(2) <= 191) THEN 2
        ELSE IF n = 3 THEN 3
        ELSE IF ~(At(3) >= 128 /\ At(3) <= 191) THEN 3
        ELSE 4

\* The char a complete valid sequence at bytes[j] encodes.
DecodeAt(bytes, j) ==
    LET v == ByteVal(bytes[j])
        n == SeqWidth(v)
        c(k) == ByteVal(bytes[j + k]) - 128
    IN  CharName(IF n = 2 THEN (v - 192) * 64 + c(1)
                 ELSE IF n = 3 THEN (v - 224) * 4096 + c(1) * 64 + c(2)
                 ELSE (v - 240) * 262144 + c(1) * 4096 + c(2) * 64 + c(3))

\* A continuation byte belongs to the sequence of a lead byte at most three
\* places before it when that sequence's valid prefix reaches it.
Consumed(bytes, i) ==
    \E j \in 1..(i - 1) :
        /\ i - j <= 3
        /\ bytes[j] \in LeadBytes
        /\ ValidUpTo(bytes, j) > i - j

\* ASCII bytes pass; a complete valid sequence decodes to its char; every
\* maximal invalid or truncated prefix of a sequence, and every byte that can
\* start none, decodes to one U+FFFD.
from_utf8_lossy(bytes) ==
    Flatten([i \in 1..Len(bytes) |->
        IF bytes[i] \notin DOMAIN ByteValue THEN <<bytes[i]>>
        ELSE IF bytes[i] \in LeadBytes
        THEN IF ValidUpTo(bytes, i) = SeqWidth(ByteVal(bytes[i]))
             THEN <<DecodeAt(bytes, i)>> ELSE <<REPLACEMENT_CHARACTER>>
        ELSE IF bytes[i] \in ContBytes /\ Consumed(bytes, i)
        THEN <<>>
        ELSE <<REPLACEMENT_CHARACTER>>])

(***************************************************************************)
(* str::find("\n\n"), str::lines, str::strip_prefix                        *)
(***************************************************************************)
NL == "\n"
CR == "\r"

\* Index (1-based) of the first "\n\n" in s, or 0.
find_nlnl(s) ==
    LET hits == {i \in 1..(Len(s) - 1) : s[i] = NL /\ s[i + 1] = NL}
    IN  IF hits = {} THEN 0 ELSE CHOOSE i \in hits : \A j \in hits : i <= j

FirstNL(s) ==
    LET hits == {i \in 1..Len(s) : s[i] = NL}
    IN  IF hits = {} THEN 0 ELSE CHOOSE i \in hits : \A j \in hits : i <= j

\* A line ends at "\n"; a "\r" right before that "\n" is dropped with it.
StripCR(l) == IF l # <<>> /\ l[Len(l)] = CR THEN Take(l, Len(l) - 1) ELSE l

RECURSIVE lines(_)
lines(s) ==
    IF s = <<>> THEN <<>>
    ELSE LET i == FirstNL(s)
         IN  IF i = 0 THEN <<s>>
             ELSE <<StripCR(Take(s, i - 1))>> \o lines(Drop(s, i))

DATA_PREFIX == <<"d", "a", "t", "a", ":", " ">>
DONE_SENTINEL == <<"[", "D", "O", "N", "E", "]">>

\* A strip_prefix that skips spaces before the prefix.
strip_prefix_Trimmed(line, prefix) ==
    IF line # <<>> /\ line[1] = " " /\ Len(line) > Len(prefix)
       /\ SubSeq(line, 2, Len(prefix) + 1) = prefix
    THEN Some(Drop(line, Len(prefix) + 1))
    ELSE IF Len(line) >= Len(prefix) /\ Take(line, Len(prefix)) = prefix
    THEN Some(Drop(line, Len(prefix)))
    ELSE None

strip_prefix(line, prefix) ==
    IF Len(line) >= Len(prefix) /\ Take(line, Len(prefix)) = prefix
    THEN Some(Drop(line, Len(prefix)))
    ELSE None

(***************************************************************************)
(* serde_json::Value and serde_json::from_str                              *)
(* A value is [t, s, a, o]: t the kind, s the text of a string or of a     *)
(* number, a the elements of an array, o the <<key, value>> entries of an  *)
(* object (a key inserted twice keeps the later value).                    *)
(***************************************************************************)
JNull == [t |-> "null", s |-> <<>>, a |-> <<>>, o |-> <<>>]
JBool(b) == [t |-> IF b THEN "true" ELSE "false", s |-> <<>>, a |-> <<>>, o |-> <<>>]
JString(s) == [t |-> "string", s |-> s, a |-> <<>>, o |-> <<>>]
JNumber(txt) == [t |-> "number", s |-> txt, a |-> <<>>, o |-> <<>>]
JArray(a) == [t |-> "array", s |-> <<>>, a |-> a, o |-> <<>>]
JObject(o) == [t |-> "object", s |-> <<>>, a |-> <<>>, o |-> o]
EmptyObject == JObject(<<>>)

ParseFail == [ok |-> FALSE, v |-> JNull, i |-> 0]
ParseOk(v, i) == [ok |-> TRUE, v |-> v, i |-> i]

Digit == {"0", "1", "2", "3", "4", "5", "6", "7", "8", "9"}
JsonWs == {" ", "\t", "\n", "\r"}
At(s, i) == IF i >= 1 /\ i <= Len(s) THEN s[i] ELSE "EOF"

\* Arithmetic on u64: four 16-bit limbs, least significant first.
LIMB == 256 * 256
DigitValue(c) ==
    CASE c = "0" -> 0 [] c = "1" -> 1 [] c = "2" -> 2 [] c = "3" -> 3 [] c = "4" -> 4
      [] c = "5" -> 5 [] c = "6" -> 6 [] c = "7" -> 7 [] c = "8" -> 8 [] c = "9" -> 9

U64Zero == <<0, 0, 0, 0>>
U32Zero == <<0, 0>>

\* l * 10 + d on four limbs; ok is FALSE when the result leaves 64 bits.
Carry4(t1, t2, t3, t4) ==
    [ok |-> t4 < LIMB, v |-> <<t1 % LIMB, t2 % LIMB, t3 % LIMB, t4 % LIMB>>]
Carry3(l, t1, t2, t3) == Carry4(t1, t2, t3, l[4] * 10 + (t3 \div LIMB))
Carry2(l, t1, t2) == Carry3(l, t1, t2, l[3] * 10 + (t2 \div LIMB))
Carry1(l, t1) == Carry2(l, t1, l[2] * 10 + (t1 \div LIMB))
MulAdd10(l, d) == Carry1(l, l[1] * 10 + d)

\* a >= b on u64.
GeU64(a, b) ==
    \/ a[4] > b[4]
    \/ a[4] = b[4] /\ a[3] > b[3]
    \/ a[4] = b[4] /\ a[3] = b[3] /\ a[2] > b[2]
    \/ a[4] = b[4] /\ a[3] = b[3] /\ a[2] = b[2] /\ a[1] >= b[1]

\* First position from i on whose character is not in set.
SkipAll(s, i, set) ==
    LET stops == {j \in i..(Len(s) + 1) : At(s, j) \notin set}
    IN  CHOOSE j \in stops : \A k \in i..(j - 1) : k \notin stops
SkipWs(s, i) == IF At(s, i) \in JsonWs THEN SkipAll(s, i, JsonWs) ELSE i
SkipDigits(s, i) == IF At(s, i) \in Digit THEN SkipAll(s, i, Digit) ELSE i

\* The char of scalar value cp: ASCII chars are themselves (the grave accent,
\* which no string of this notation can hold, and the control characters
\* other than tab, line feed and carriage return are named), the others are
\* named.
PrintableAscii ==
    <<" ", "!", "\"", "#", "$", "%", "&", "'", "(", ")", "*", "+", ",", "-", ".", "/",
      "0", "1", "2", "3", "4", "5", "6", "7", "8", "9", ":", ";", "<", "=", ">", "?",
      "@", "A", "B", "C", "D", "E", "F", "G", "H", "I", "J", "K", "L", "M", "N", "O",
      "P", "Q", "R", "S", "T", "U", "V", "W", "X", "Y", "Z", "[", "\\", "]", "^", "_",
      "U+0060", "a", "b", "c", "d", "e", "f", "g", "h", "i", "j", "k", "l", "m", "n", "o",
      "p", "q", "r", "s", "t", "u", "v", "w", "x", "y", "z", "{", "|", "}", "~">>
CharOf(cp) ==
    IF cp >= 32 /\ cp <= 126 THEN PrintableAscii[cp - 31]
    ELSE IF cp = 9 THEN "\t"
    ELSE IF cp = 10 THEN "\n"
    ELSE IF cp = 13 THEN "\r"
    ELSE CharName(cp)

\* U+0000..U+001F: not allowed unescaped inside a string.
ControlChars == {CharOf(cp) : cp \in 0..31}

\* The characters an escape sequence \c stands for.
Unescape(c) ==
    CASE c = "\"" -> "\""
      [] c = "\\" -> "\\"
      [] c = "/"  -> "/"
      [] c = "n"  -> "\n"
      [] c = "t"  -> "\t"
      [] c = "r"  -> "\r"
      [] c = "b"  -> CharOf(8)
      [] c = "f"  -> CharOf(12)
Escapable == {"\"", "\\", "/", "n", "t", "r", "b", "f"}

HexChars == {"0", "1", "2", "3", "4", "5", "6", "7", "8", "9",
             "a", "b", "c", "d", "e", "f", "A", "B", "C", "D", "E", "F"}
HexValue(c) ==
    CASE c \in Digit -> CHOOSE n \in 0..9 : HexDigits[n + 1] = c
      [] c \in {"a", "A"} -> 10 [] c \in {"b", "B"} -> 11 [] c \in {"c", "C"} -> 12
      [] c \in {"d", "D"} -> 13 [] c \in {"e", "E"} -> 14 [] c \in {"f", "F"} -> 15

\* The four hex digits at s[i..i+3], as [ok, n].
decode_hex_escape(s, i) ==
    IF \A k \in 0..3 : At(s, i + k) \in HexChars
    THEN [ok |-> TRUE,
          n |-> HexValue(s[i]) * 4096 + HexValue(s[i + 1]) * 256
                + HexValue(s[i + 2]) * 16 + HexValue(s[i + 3])]
    ELSE [ok |-> FALSE, n |-> 0]

\* i is the position after "\u".  The result is [ok, c, i]: the char and the
\* position after the escape.  A leading surrogate must be followed by the
\* escape of a trailing one, and the two stand for one char; a surrogate
\* alone is an error.
parse_unicode_escape(s, i) ==
    LET n1 == decode_hex_escape(s, i)
        n2 == decode_hex_escape(s, i + 6)
        bad == [ok |-> FALSE, c |-> "", i |-> 0]
    IN  IF ~n1.ok THEN bad
        ELSE IF n1.n >= 56320 /\ n1.n <= 57343 THEN bad
        ELSE IF n1.n >= 55296 /\ n1.n <= 56319
        THEN IF At(s, i + 4) = "\\" /\ At(s, i + 5) = "u" /\ n2.ok
                /\ n2.n >= 56320 /\ n2.n <= 57343
             THEN [ok |-> TRUE,
                   c |-> CharOf(65536 + (n1.n - 55296) * 1024 + (n2.n - 56320)),
                   i |-> i + 10]
             ELSE bad
        ELSE [ok |-> TRUE, c |-> CharOf(n1.n), i |-> i + 4]

\* i is the position after the opening quote.
RECURSIVE ParseStringBody(_, _, _)
AfterUnicodeEscape(s, u, acc) ==
    IF u.ok THEN ParseStringBody(s, u.i, Append(acc, u.c)) ELSE ParseFail
ParseStringBody(s, i, acc) ==
    LET c == At(s, i) IN
    IF c = "EOF" THEN ParseFail
    ELSE IF c = "\"" THEN ParseOk(JString(acc), i + 1)
    ELSE IF c = "\\"
         THEN IF At(s, i + 1) \in Escapable
              THEN ParseStringBody(s, i + 2, Append(acc, Unescape(s[i + 1])))
              ELSE IF At(s, i + 1) = "u"
              THEN AfterUnicodeEscape(s, parse_unicode_escape(s, i + 2), acc)
              ELSE ParseFail
    ELSE IF c \in ControlChars THEN ParseFail
    ELSE ParseStringBody(s, i + 1, Append(acc, c))

\* Digits s[i], s[i+1], ... added to the significand sig for as long as it
\* stays within u64: [sig, i], i the first position not taken (not a digit,
\* or the digit that would overflow).
RECURSIVE AccDigits(_, _, _)
AccNext(s, i, sig, r) == IF r.ok THEN AccDigits(s, i + 1, r.v) ELSE [sig |-> sig, i |-> i]
AccDigits(s, i, sig) ==
    IF sig = U64Zero /\ At(s, i) = "0" THEN AccDigits(s, SkipAll(s, i, {"0"}), sig)
    ELSE IF At(s, i) \in Digit THEN AccNext(s, i, sig, MulAdd10(sig, DigitValue(s[i])))
    ELSE [sig |-> sig, i |-> i]

\* parse_exponent: the exponent digits s[i..j-1] as i32, [overflow, v];
\* overflow is TRUE when a digit would take the value beyond i32.
I32_MAX == 2147483647
RECURSIVE ExpDigits(_, _, _, _)
ExpDigits(s, i, j, acc) ==
    IF i >= j THEN [overflow |-> FALSE, v |-> acc]
    ELSE IF acc = 0 /\ s[i] = "0" THEN ExpDigits(s, SkipAll(s, i, {"0"}), j, acc)
    ELSE IF acc >= I32_MAX \div 10
            /\ (acc > I32_MAX \div 10 \/ DigitValue(s[i]) > I32_MAX % 10)
    THEN [overflow |-> TRUE, v |-> 0]
    ELSE ExpDigits(s, i + 1, j, acc * 10 + DigitValue(s[i]))

\* i32::saturating_add and i32::saturating_sub, b >= 0.
saturating_add(a, b) == IF a > 0 THEN (IF b > I32_MAX - a THEN I32_MAX ELSE a + b) ELSE a + b
saturating_sub(a, b) ==
    IF a < 0 THEN (IF b > I32_MAX + a THEN (0 - I32_MAX) - 1 ELSE a - b) ELSE a - b

\* Smallest significand whose product with 10^e is beyond f64 (rounds to
\* infinity), for the powers of ten 289..308; no u64 reaches it below 289.
F64_INFINITE_FROM ==
    [e \in 289..308 |->
        CASE e = 289 -> <<25601, 53828, 58320, 63866>>
          [] e = 290 -> <<28801, 44704, 45153, 6386>>
          [] e = 291 -> <<55344, 63452, 43836, 638>>
          [] e = 292 -> <<44854, 32559, 56812, 63>>
          [] e = 293 -> <<63468, 3255, 25342, 6>>
          [] e = 294 -> <<26008, 52754, 41855, 0>>
          [] e = 295 -> <<28816, 38043, 4185, 0>>
          [] e = 296 -> <<22543, 36572, 418, 0>>
          [] e = 297 -> <<2255, 56086, 41, 0>>
          [] e = 298 -> <<13333, 12162, 4, 0>>
          [] e = 299 -> <<40655, 27430, 0, 0>>
          [] e = 300 -> <<4066, 2743, 0, 0>>
          [] e = 301 -> <<20068, 274, 0, 0>>
          [] e = 302 -> <<28222, 27, 0, 0>>
          [] e = 303 -> <<48698, 2, 0, 0>>
          [] e = 304 -> <<17977, 0, 0, 0>>
          [] e = 305 -> <<1798, 0, 0, 0>>
          [] e = 306 -> <<180, 0, 0, 0>>
          [] e = 307 -> <<18, 0, 0, 0>>
          [] e = 308 -> <<2, 0, 0, 0>>]

\* f64_from_parts: significand * 10^exponent is a number out of range when
\* it is not zero and the product is infinite.
OutOfRange(sig, exponent) ==
    /\ sig # U64Zero
    /\ \/ exponent > 308
       \/ exponent >= 289 /\ GeU64(sig, F64_INFINITE_FROM[exponent])

\* JSON number syntax: -? (0 | [1-9][0-9]*) (. [0-9]+)? ([eE] [+-]? [0-9]+)?
\* After a leading 0 no digit may follow.  An integer within u64 (or its
\* negation) is kept as it is.  Any other number is held as f64: the
\* significand is the digits that fit u64, the integer digits beyond them
\* raise the exponent, the fraction digits taken lower it, and the result
\* must be finite.  An exponent beyond i32 is out of range when it is
\* positive and the significand is not zero, and gives zero otherwise.
ParseNumber(s, i) ==
    LET i1 == IF At(s, i) = "-" THEN i + 1 ELSE i
        int == IF At(s, i1) = "0" THEN [sig |-> U64Zero, i |-> i1 + 1]
               ELSE AccDigits(s, i1, U64Zero)
        i2 == SkipDigits(s, int.i)
        hasFrac == At(s, i2) = "."
        frac == IF hasFrac THEN AccDigits(s, i2 + 1, int.sig) ELSE [sig |-> int.sig, i |-> i2]
        f0 == IF hasFrac THEN SkipDigits(s, frac.i) ELSE i2
        fracOk == ~hasFrac \/ f0 > i2 + 1
        hasExp == At(s, f0) \in {"e", "E"}
        e0 == IF hasExp
              THEN IF At(s, f0 + 1) \in {"+", "-"} THEN f0 + 2 ELSE f0 + 1
              ELSE f0
        e1 == IF hasExp THEN SkipDigits(s, e0) ELSE f0
        expOk == ~hasExp \/ e1 > e0
        positive_exp == At(s, f0 + 1) # "-"
        starting == (i2 - int.i) - (IF hasFrac THEN frac.i - (i2 + 1) ELSE 0)
        exp == IF hasExp THEN ExpDigits(s, e0, e1, 0) ELSE [overflow |-> FALSE, v |-> 0]
        exponent == IF positive_exp THEN saturating_add(starting, exp.v)
                    ELSE saturating_sub(starting, exp.v)
        isFloat == hasFrac \/ hasExp \/ i2 > int.i
    IN  IF At(s, i1) \notin Digit \/ ~fracOk \/ ~expOk THEN ParseFail
        ELSE IF At(s, i1) = "0" /\ At(s, i1 + 1) \in Digit THEN ParseFail
        ELSE IF exp.overflow
        THEN IF frac.sig # U64Zero /\ positive_exp THEN ParseFail
             ELSE ParseOk(JNumber(SubSeq(s, i, e1 - 1)), e1)
        ELSE IF isFloat /\ OutOfRange(frac.sig, exponent) THEN ParseFail
        ELSE ParseOk(JNumber(SubSeq(s, i, e1 - 1)), e1)

ParseLiteral(s, i, word, v) ==
    IF i + Len(word) - 1 <= Len(s) /\ SubSeq(s, i, i + Len(word) - 1) = word
    THEN ParseOk(v, i + Len(word))
    ELSE ParseFail

HasKey(o, k) == \E n \in 1..Len(o) : o[n][1] = k
ObjInsert(o, k, v) ==
    IF HasKey(o, k)
    THEN [n \in 1..Len(o) |-> IF o[n][1] = k THEN <<k, v>> ELSE o[n]]
    ELSE Append(o, <<k, v>>)

RECURSIVE ParseValue(_, _, _)
RECURSIVE ParseElements(_, _, _, _)
RECURSIVE ParseMembers(_, _, _, _)

\* Arrays and objects nest at most RECURSION_LIMIT - 1 deep: d is the depth
\* remaining, decremented by each "[" and "{", and must stay above zero.
RECURSION_LIMIT == 128

\* After an element r of an array, acc the elements before it: a comma and
\* the next element, or "]".
AfterElement(s, r, acc, d) ==
    CASE ~r.ok -> ParseFail
      [] At(s, SkipWs(s, r.i)) = "," ->
            ParseElements(s, SkipWs(s, SkipWs(s, r.i) + 1), Append(acc, r.v), d)
      [] At(s, SkipWs(s, r.i)) = "]" ->
            ParseOk(JArray(Append(acc, r.v)), SkipWs(s, r.i) + 1)
      [] OTHER -> ParseFail

\* i is at the first character of an element; acc the elements so far.
ParseElements(s, i, acc, d) == AfterElement(s, ParseValue(s, i, d), acc, d)

\* After the value r of the member whose key is k.v.s, acc the entries
\* before it: a comma and the next member, or "}".
AfterMemberValue(s, k, r, acc, d) ==
    CASE ~r.ok -> ParseFail
      [] At(s, SkipWs(s, r.i)) = "," ->
            ParseMembers(s, SkipWs(s, SkipWs(s, r.i) + 1), ObjInsert(acc, k.v.s, r.v), d)
      [] At(s, SkipWs(s, r.i)) = "}" ->
            ParseOk(JObject(ObjInsert(acc, k.v.s, r.v)), SkipWs(s, r.i) + 1)
      [] OTHER -> ParseFail
\* After the key k of a member: a colon and the member's value.
AfterKey(s, k, acc, d) ==
    CASE ~k.ok -> ParseFail
      [] At(s, SkipWs(s, k.i)) # ":" -> ParseFail
      [] OTHER ->
            AfterMemberValue(s, k, ParseValue(s, SkipWs(s, SkipWs(s, k.i) + 1), d), acc, d)

\* i is at the opening quote of a key; acc the entries so far.
ParseMembers(s, i, acc, d) ==
    CASE At(s, i) # "\"" -> ParseFail
      [] OTHER -> AfterKey(s, ParseStringBody(s, i + 1, <<>>), acc, d)

ParseValue(s, i, d) ==
    CASE At(s, i) = "\"" -> ParseStringBody(s, i + 1, <<>>)
      [] At(s, i) \in {"{", "["} /\ d = 1 -> ParseFail
      [] At(s, i) = "{" /\ At(s, SkipWs(s, i + 1)) = "}" ->
            ParseOk(EmptyObject, SkipWs(s, i + 1) + 1)
      [] At(s, i) = "{" -> ParseMembers(s, SkipWs(s, i + 1), <<>>, d - 1)
      [] At(s, i) = "[" /\ At(s, SkipWs(s, i + 1)) = "]" ->
            ParseOk(JArray(<<>>), SkipWs(s, i + 1) + 1)
      [] At(s, i) = "[" -> ParseElements(s, SkipWs(s, i + 1), <<>>, d - 1)
      [] At(s, i) = "t" -> ParseLiteral(s, i, <<"t", "r", "u", "e">>, JBool(TRUE))
      [] At(s, i) = "f" -> ParseLiteral(s, i, <<"f", "a", "l", "s", "e">>, JBool(FALSE))
      [] At(s, i) = "n" -> ParseLiteral(s, i, <<"n", "u", "l", "l">>, JNull)
      [] At(s, i) \in Digit \cup {"-"} -> ParseNumber(s, i)
      [] OTHER -> ParseFail

\* serde_json::from_str::<Value>: one value, white space around it allowed,
\* anything else after it is an error.  Result is an Option (Result::ok).
NoValue == [some |-> FALSE, v |-> JNull]
WholeInput(s, r) == IF r.ok /\ SkipWs(s, r.i) = Len(s) + 1 THEN Some(r.v) ELSE NoValue
from_str(s) == WholeInput(s, ParseValue(s, SkipWs(s, 1), RECURSION_LIMIT))

\* Value indexing value["key"]: Null unless value is an object holding key.
Index(v, k) ==
    IF v.t = "object" /\ HasKey(v.o, k)
    THEN (CHOOSE e \in {v.o[n] : n \in 1..Len(v.o)} : e[1] = k)[2]
    ELSE JNull

\* Value::as_str
as_str(v) == IF v.t = "string" THEN Some(v.s) ELSE None

(***************************************************************************)
(* Numbers.  A u32 is the two low limbs of a u64.                          *)
(***************************************************************************)

RECURSIVE DecimalU64(_, _, _)
NextDigit(txt, i, r) ==
    IF r.ok THEN DecimalU64(txt, i + 1, r.v) ELSE [some |-> FALSE, v |-> U64Zero]
DecimalU64(txt, i, acc) ==
    IF i > Len(txt) THEN [some |-> TRUE, v |-> acc]
    ELSE NextDigit(txt, i, MulAdd10(acc, DigitValue(txt[i])))

\* Value::as_u64: a number written as a non-negative integer that fits 64
\* bits (serde_json holds every other number as i64 or f64).
as_u64(v) ==
    IF v.t = "number" /\ \A i \in 1..Len(v.s) : v.s[i] \in Digit
    THEN DecimalU64(v.s, 1, U64Zero)
    ELSE [some |-> FALSE, v |-> U64Zero]

\* `x as u32`: the low 32 bits.
as_u32(l) == <<l[1], l[2]>>

\* a + b on u32: the sum modulo 2^32, and whether it overflowed.
wrapping_add(a, b) ==
    LET s1 == a[1] + b[1]
        s2 == a[2] + b[2] + (s1 \div LIMB)
    IN  <<s1 % LIMB, s2 % LIMB>>
overflows(a, b) == a[2] + b[2] + ((a[1] + b[1]) \div LIMB) >= LIMB

(***************************************************************************)
(* Protocol strings                                                        *)
(***************************************************************************)
S_type == <<"t", "y", "p", "e">>
S_message == <<"m", "e", "s", "s", "a", "g", "e">>
S_usage == <<"u", "s", "a", "g", "e">>
S_input_tokens == <<"i", "n", "p", "u", "t", "_", "t", "o", "k", "e", "n", "s">>
S_output_tokens == <<"o", "u", "t", "p", "u", "t", "_", "t", "o", "k", "e", "n", "s">>
S_cache_read_input_tokens == <<"c", "a", "c", "h", "e", "_", "r", "e", "a", "d", "_", "i", "n", "p", "u", "t", "_", "t", "o", "k", "e", "n", "s">>
S_cache_creation_input_tokens == <<"c", "a", "c", "h", "e", "_", "c", "r", "e", "a", "t", "i", "o", "n", "_", "i", "n", "p", "u", "t", "_", "t", "o", "k", "e", "n", "s">>
S_content_block == <<"c", "o", "n", "t", "e", "n", "t", "_", "b", "l", "o", "c", "k">>
S_tool_use == <<"t", "o", "o", "l", "_", "u", "s", "e">>
S_id == <<"i", "d">>
S_name == <<"n", "a", "m", "e">>
S_delta == <<"d", "e", "l", "t", "a">>
S_text_delta == <<"t", "e", "x", "t", "_", "d", "e", "l", "t", "a">>
S_text == <<"t", "e", "x", "t">>
S_input_json_delta == <<"i", "n", "p", "u", "t", "_", "j", "s", "o", "n", "_", "d", "e", "l", "t", "a">>
S_partial_json == <<"p", "a", "r", "t", "i", "a", "l", "_", "j", "s", "o", "n">>
S_message_start == <<"m", "e", "s", "s", "a", "g", "e", "_", "s", "t", "a", "r", "t">>
S_content_block_start == <<"c", "o", "n", "t", "e", "n", "t", "_", "b", "l", "o", "c", "k", "_", "s", "t", "a", "r", "t">>
S_content_block_delta == <<"c", "o", "n", "t", "e", "n", "t", "_", "b", "l", "o", "c", "k", "_", "d", "e", "l", "t", "a">>
S_content_block_stop == <<"c", "o", "n", "t", "e", "n", "t", "_", "b", "l", "o", "c", "k", "_", "s", "t", "o", "p">>
S_message_delta == <<"m", "e", "s", "s", "a", "g", "e", "_", "d", "e", "l", "t", "a">>
S_message_stop == <<"m", "e", "s", "s", "a", "g", "e", "_", "s", "t", "o", "p">>

(***************************************************************************)
(* ChatEvent, ToolUseEvent, UsageEvent                                     *)
(***************************************************************************)
NoContent == [some |-> FALSE, v |-> <<>>]
NoToolUse == [some |-> FALSE, v |-> [id |-> <<>>, name |-> <<>>, input |-> JNull]]
NoUsage == [some |-> FALSE,
            v |-> [input_tokens |-> U32Zero, output_tokens |-> U32Zero,
                   cache_read_tokens |-> [some |-> FALSE, v |-> U32Zero],
                   cache_write_tokens |-> [some |-> FALSE, v |-> U32Zero]]]
NoError == [some |-> FALSE, v |-> ""]

ChatEvent(event_type, content, tool_use, usage, error) ==
    [event_type |-> event_type, content |-> content, tool_use |-> tool_use,
     usage |-> usage, error |-> error]

ModelSelectedEvent(model) == ChatEvent("model_selected", Some(model), NoToolUse, NoUsage, NoError)
TextEvent(text) == ChatEvent("text", Some(text), NoToolUse, NoUsage, NoError)
ToolUseEvent(id, name, input) ==
    ChatEvent("tool_use", NoContent, Some([id |-> id, name |-> name, input |-> input]),
              NoUsage, NoError)
UsageEvent(total_usage) == ChatEvent("usage", NoContent, NoToolUse, Some(total_usage), NoError)
DoneEvent == ChatEvent("done", NoContent, NoToolUse, NoUsage, NoError)
ErrorEvent(e) == ChatEvent("error", NoContent, NoToolUse, NoUsage, Some(e))

(***************************************************************************)
(* The decoding session of run_chat_stream: the locals buffer,             *)
(* total_usage, current_tool_id, current_tool_name, current_tool_input,    *)
(* with out, the events emitted so far, panicked, set when an arithmetic   *)
(* overflow check aborts the task, and listening, whether the event system *)
(* has a subscriber to deliver the stream's events to.                     *)
(***************************************************************************)
NewSession ==
    [buffer |-> <<>>,
     total_usage |-> [input_tokens |-> U32Zero, output_tokens |-> U32Zero,
                      cache_read_tokens |-> Some(U32Zero),
                      cache_write_tokens |-> Some(U32Zero)],
     current_tool_id |-> NoContent,
     current_tool_name |-> NoContent,
     current_tool_input |-> <<>>,
     out |-> <<>>,
     panicked |-> FALSE,
     listening |-> TRUE]

\* app.emit(..) returns a Result: Err when the event cannot be delivered.
EmitResult(se, ev) == IF se.listening THEN "Ok" ELSE "Err"

\* An emit whose failure ends the task (emit(..).unwrap()).
Emit_Unwrap(se, ev) ==
    IF EmitResult(se, ev) = "Err" THEN [se EXCEPT !.panicked = TRUE]
    ELSE [se EXCEPT !.out = Append(@, ev)]

\* `let _ = app.emit(..)`: the event is handed to the event system and the
\* Result is dropped.  out holds every event handed over.
Emit(se, ev) ==
    IF EmitResult(se, ev) \in {"Ok", "Err"} THEN [se EXCEPT !.out = Append(@, ev)] ELSE se

\* map.get(key).and_then(|v| v.as_u64())
GetU64(obj, k) == IF HasKey(obj.o, k) THEN as_u64(Index(obj, k)) ELSE [some |-> FALSE, v |-> U64Zero]
UnwrapOr0(opt) == IF opt.some THEN opt.v ELSE U64Zero
UnwrapOr0U32(opt) == IF opt.some THEN opt.v ELSE U32Zero

\* One `+=` / `+` on a u32 counter: with overflow checks compiled in, an
\* overflowing addition panics; without them it wraps.
AddCounter(se, checks, field, amount) ==
    LET cur == se.total_usage[field] IN
    IF overflows(cur, amount) /\ checks THEN [se EXCEPT !.panicked = TRUE]
    ELSE [se EXCEPT !.total_usage[field] = wrapping_add(cur, amount)]

AddOptCounter(se, checks, field, amount) ==
    LET cur == UnwrapOr0U32(se.total_usage[field]) IN
    IF overflows(cur, amount) /\ checks THEN [se EXCEPT !.panicked = TRUE]
    ELSE [se EXCEPT !.total_usage[field] = Some(wrapping_add(cur, amount))]

\* if let Some(n) = usage.get(key).and_then(as_u64) { counter = Some(.. + n as u32) }
AddIfPresent(se, checks, field, n) ==
    IF se.panicked \/ ~n.some THEN se ELSE AddOptCounter(se, checks, field, as_u32(n.v))

\* if let Some(usage) = event["message"]["usage"].as_object() { .. }
MessageStartUsage(se, checks, usage) ==
    IF usage.t # "object" THEN se
    ELSE AddIfPresent(
             AddIfPresent(
                 AddCounter(se, checks, "input_tokens",
                            as_u32(UnwrapOr0(GetU64(usage, S_input_tokens)))),
                 checks, "cache_read_tokens", GetU64(usage, S_cache_read_input_tokens)),
             checks, "cache_write_tokens", GetU64(usage, S_cache_creation_input_tokens))

OnMessageStart(se, checks, event) ==
    MessageStartUsage(se, checks, Index(Index(event, S_message), S_usage))

\* A content_block_start that leaves an open call alone.
OnContentBlockStart_KeepFirst(se, event) ==
    LET block == Index(event, S_content_block) IN
    IF as_str(Index(block, S_type)) = Some(S_tool_use)
       /\ ~se.current_tool_id.some /\ ~se.current_tool_name.some
    THEN [se EXCEPT !.current_tool_id = as_str(Index(block, S_id)),
                    !.current_tool_name = as_str(Index(block, S_name)),
                    !.current_tool_input = <<>>]
    ELSE se

\* A content_block_start that keeps the fragments gathered so far.
OnContentBlockStart_KeepInput(se, event) ==
    LET block == Index(event, S_content_block) IN
    IF as_str(Index(block, S_type)) = Some(S_tool_use)
    THEN [se EXCEPT !.current_tool_id = as_str(Index(block, S_id)),
                    !.current_tool_name = as_str(Index(block, S_name))]
    ELSE se

OnContentBlockStart(se, event) ==
    LET block == Index(event, S_content_block) IN
    IF as_str(Index(block, S_type)) = Some(S_tool_use)
    THEN [se EXCEPT !.current_tool_id = as_str(Index(block, S_id)),
                    !.current_tool_name = as_str(Index(block, S_name)),
                    !.current_tool_input = <<>>]
    ELSE se

\* A delta arm that forwards partial JSON to the subscriber like text.
OnContentBlockDelta_Forward(se, event) ==
    LET delta == Index(event, S_delta)
        dtype == as_str(Index(delta, S_type))
        text == as_str(Index(delta, S_text))
        json == as_str(Index(delta, S_partial_json))
    IN  IF dtype = Some(S_text_delta)
        THEN IF text.some THEN Emit(se, TextEvent(text.v)) ELSE se
        ELSE IF dtype = Some(S_input_json_delta)
        THEN IF json.some
             THEN Emit([se EXCEPT !.current_tool_input = @ \o json.v], TextEvent(json.v))
             ELSE se
        ELSE se

OnContentBlockDelta(se, event) ==
    LET delta == Index(event, S_delta)
        dtype == as_str(Index(delta, S_type))
        text == as_str(Index(delta, S_text))
        json == as_str(Index(delta, S_partial_json))
    IN  IF dtype = Some(S_text_delta)
        THEN IF text.some THEN Emit(se, TextEvent(text.v)) ELSE se
        ELSE IF dtype = Some(S_input_json_delta)
        THEN IF json.some THEN [se EXCEPT !.current_tool_input = @ \o json.v] ELSE se
        ELSE se

\* .unwrap_or_default(): Value::Null on a parse failure.
UnwrapOrNull(parsed) == IF parsed.some THEN parsed.v ELSE JNull

\* .unwrap_or(Value::Object(Map::new()))
UnwrapOrEmptyObject(parsed) == IF parsed.some THEN parsed.v ELSE EmptyObject

\* A content_block_stop that leaves the slot open when it publishes nothing.
OnContentBlockStop_KeepOpen(se) ==
    IF se.current_tool_id.some /\ se.current_tool_name.some
    THEN Emit([se EXCEPT !.current_tool_id = NoContent, !.current_tool_name = NoContent,
                         !.current_tool_input = <<>>],
              ToolUseEvent(se.current_tool_id.v, se.current_tool_name.v,
                           UnwrapOrEmptyObject(from_str(se.current_tool_input))))
    ELSE se

\* A content_block_stop that publishes a call whose id or name is missing,
\* with an empty string in its place.
OnContentBlockStop_Default(se) ==
    IF se.current_tool_id.some \/ se.current_tool_name.some
    THEN Emit([se EXCEPT !.current_tool_id = NoContent, !.current_tool_name = NoContent,
                         !.current_tool_input = <<>>],
              ToolUseEvent((IF se.current_tool_id.some THEN se.current_tool_id.v ELSE <<>>), (IF se.current_tool_name.some THEN se.current_tool_name.v ELSE <<>>),
                           UnwrapOrEmptyObject(from_str(se.current_tool_input))))
    ELSE se

OnContentBlockStop(se) ==
    LET id == se.current_tool_id
        name == se.current_tool_name
        taken == [se EXCEPT !.current_tool_id = NoContent, !.current_tool_name = NoContent]
    IN  IF id.some /\ name.some
        THEN Emit([taken EXCEPT !.current_tool_input = <<>>],
                  ToolUseEvent(id.v, name.v,
                               UnwrapOrEmptyObject(from_str(se.current_tool_input))))
        ELSE taken

\* if let Some(usage) = event["usage"].as_object() { .. }
MessageDeltaUsage(se, checks, usage) ==
    IF usage.t # "object" THEN se
    ELSE AddCounter(se, checks, "output_tokens",
                    as_u32(UnwrapOr0(GetU64(usage, S_output_tokens))))

OnMessageDelta(se, checks, event) ==
    MessageDeltaUsage(se, checks, Index(event, S_usage))

OnMessageStop(se) == Emit(Emit(se, UsageEvent(se.total_usage)), DoneEvent)

\* The match on event["type"].
Match(se, checks, event, event_type) ==
    CASE event_type = S_message_start -> OnMessageStart(se, checks, event)
      [] event_type = S_content_block_start -> OnContentBlockStart(se, event)
      [] event_type = S_content_block_delta -> OnContentBlockDelta(se, event)
      [] event_type = S_content_block_stop -> OnContentBlockStop(se)
      [] event_type = S_message_delta -> OnMessageDelta(se, checks, event)
      [] event_type = S_message_stop -> OnMessageStop(se)
      [] OTHER -> se

\* .unwrap_or("")
UnwrapOrEmpty(opt) == IF opt.some THEN opt.v ELSE <<>>
Dispatch(se, checks, event) ==
    Match(se, checks, event, UnwrapOrEmpty(as_str(Index(event, S_type))))

\* A handler that reports a data line it cannot parse as a stream error.
IfParsed_Escalate(se, checks, event) ==
    IF event.some THEN Dispatch(se, checks, event.v) ELSE Emit(se, ErrorEvent("Parse error"))

\* if let Ok(event) = serde_json::from_str(data) { match ... }
IfParsed(se, checks, event) == IF event.some THEN Dispatch(se, checks, event.v) ELSE se

\* A line handler that takes the [DONE] sentinel as the end of the message.
DataLine_DoneStops(se, checks, data) ==
    IF ~data.some THEN se
    ELSE IF data.v = DONE_SENTINEL THEN OnMessageStop(se)
    ELSE IfParsed(se, checks, from_str(data.v))

\* One line of a frame.
DataLine(se, checks, data) ==
    IF ~data.some THEN se
    ELSE IF data.v = DONE_SENTINEL THEN se
    ELSE IfParsed(se, checks, from_str(data.v))
ProcessLine(se, checks, line) == DataLine(se, checks, strip_prefix(line, DATA_PREFIX))

\* for line in event_data.lines(): a panic ends the task at once.
RECURSIVE ProcessLines(_, _, _)
ProcessLines(se, checks, ls) ==
    IF ls = <<>> \/ se.panicked THEN se
    ELSE ProcessLines(ProcessLine(se, checks, Head(ls)), checks, Tail(ls))

\* while let Some(event_end) = buffer.find("\n\n")
RECURSIVE ProcessFrames(_, _)
ExtractFrame(se, checks, event_end) ==
    IF event_end = 0 \/ se.panicked THEN se
    ELSE ProcessFrames(
             ProcessLines([se EXCEPT !.buffer = Drop(se.buffer, event_end + 1)], checks,
                          lines(Take(se.buffer, event_end - 1))),
             checks)
ProcessFrames(se, checks) == ExtractFrame(se, checks, find_nlnl(se.buffer))

\* One iteration of the chunk loop with a chunk read successfully.
ProcessChunk(se, checks, chunk) ==
    ProcessFrames([se EXCEPT !.buffer = @ \o from_utf8_lossy(chunk)], checks)

(***************************************************************************)
(* str::to_lowercase.  The tables are those of the Unicode character       *)
(* database, version 17.0.0, which the standard library carries, as ranges *)
(* <<first, last, step>> of scalar values.                                 *)
(***************************************************************************)
\* The set of chars of the ranges rs.
CharsOf(rs) ==
    UNION {{CharOf(cp) : cp \in {x \in rs[k][1]..rs[k][2] : (x - rs[k][1]) % rs[k][3] = 0}} :
           k \in 1..Len(rs)}

\* Lowercase_Mapping of the chars that have a one-char mapping, as ranges
\* <<first, last, step, distance to the lowercase char>>.
LowercaseRanges ==
    <<
      <<65, 90, 1, 32>>, <<192, 214, 1, 32>>, <<216, 222, 1, 32>>, <<256, 302, 2, 1>>,
      <<306, 310, 2, 1>>, <<313, 327, 2, 1>>, <<330, 374, 2, 1>>,
      <<376, 376, 1, -121>>, <<377, 381, 2, 1>>, <<385, 385, 1, 210>>, <<386, 388, 2, 1>>,
      <<390, 390, 1, 206>>, <<391, 391, 1, 1>>, <<393, 394, 1, 205>>, <<395, 395, 1, 1>>,
      <<398, 398, 1, 79>>, <<399, 399, 1, 202>>, <<400, 400, 1, 203>>, <<401, 401, 1, 1>>,
      <<403, 403, 1, 205>>, <<404, 404, 1, 207>>, <<406, 406, 1, 211>>, <<407, 407, 1, 209>>,
      <<408, 408, 1, 1>>, <<412, 412, 1, 211>>, <<413, 413, 1, 213>>, <<415, 415, 1, 214>>,
      <<416, 420, 2, 1>>, <<422, 422, 1, 218>>, <<423, 423, 1, 1>>, <<425, 425, 1, 218>>,
      <<428, 428, 1, 1>>, <<430, 430, 1, 218>>, <<431, 431, 1, 1>>, <<433, 434, 1, 217>>,
      <<435, 437, 2, 1>>, <<439, 439, 1, 219>>, <<440, 440, 1, 1>>, <<444, 444, 1, 1>>,
      <<452, 452, 1, 2>>, <<453, 453, 1, 1>>, <<455, 455, 1, 2>>, <<456, 456, 1, 1>>,
      <<458, 458, 1, 2>>, <<459, 475, 2, 1>>, <<478, 494, 2, 1>>, <<497, 497, 1, 2>>,
      <<498, 500, 2, 1>>, <<502, 502, 1, -97>>, <<503, 503, 1, -56>>, <<504, 542, 2, 1>>,
      <<544, 544, 1, -130>>, <<546, 562, 2, 1>>, <<570, 570, 1, 10795>>, <<571, 571, 1, 1>>,
      <<573, 573, 1, -163>>, <<574, 574, 1, 10792>>, <<577, 577, 1, 1>>, <<579, 579, 1, -195>>,
      <<580, 580, 1, 69>>, <<581, 581, 1, 71>>, <<582, 590, 2, 1>>, <<880, 882, 2, 1>>,
      <<886, 886, 1, 1>>, <<895, 895, 1, 116>>, <<902, 902, 1, 38>>, <<904, 906, 1, 37>>,
      <<908, 908, 1, 64>>, <<910, 911, 1, 63>>, <<913, 929, 1, 32>>, <<931, 939, 1, 32>>,
      <<975, 975, 1, 8>>, <<984, 1006, 2, 1>>, <<1012, 1012, 1, -60>>, <<1015, 1015, 1, 1>>,
      <<1017, 1017, 1, -7>>, <<1018, 1018, 1, 1>>, <<1021, 1023, 1, -130>>,
      <<1024, 1039, 1, 80>>, <<1040, 1071, 1, 32>>, <<1120, 1152, 2, 1>>, <<1162, 1214, 2, 1>>,
      <<1216, 1216, 1, 15>>, <<1217, 1229, 2, 1>>, <<1232, 1326, 2, 1>>, <<1329, 1366, 1, 48>>,
      <<4256, 4293, 1, 7264>>, <<4295, 4295, 1, 7264>>, <<4301, 4301, 1, 7264>>,
      <<5024, 5103, 1, 38864>>, <<5104, 5109, 1, 8>>, <<7305, 7305, 1, 1>>,
      <<7312, 7354, 1, -3008>>, <<7357, 7359, 1, -3008>>, <<7680, 7828, 2, 1>>,
      <<7838, 7838, 1, -7615>>, <<7840, 7934, 2, 1>>, <<7944, 7951, 1, -8>>,
      <<7960, 7965, 1, -8>>, <<7976, 7983, 1, -8>>, <<7992, 7999, 1, -8>>,
      <<8008, 8013, 1, -8>>, <<8025, 8031, 2, -8>>, <<8040, 8047, 1, -8>>,
      <<8072, 8079, 1, -8>>, <<8088, 8095, 1, -8>>, <<8104, 8111, 1, -8>>,
      <<8120, 8121, 1, -8>>, <<8122, 8123, 1, -74>>, <<8124, 8124, 1, -9>>,
      <<8136, 8139, 1, -86>>, <<8140, 8140, 1, -9>>, <<8152, 8153, 1, -8>>,
      <<8154, 8155, 1, -100>>, <<8168, 8169, 1, -8>>, <<8170, 8171, 1, -112>>,
      <<8172, 8172, 1, -7>>, <<8184, 8185, 1, -128>>, <<8186, 8187, 1, -126>>,
      <<8188, 8188, 1, -9>>, <<8486, 8486, 1, -7517>>, <<8490, 8490, 1, -8383>>,
      <<8491, 8491, 1, -8262>>, <<8498, 8498, 1, 28>>, <<8544, 8559, 1, 16>>,
      <<8579, 8579, 1, 1>>, <<9398, 9423, 1, 26>>, <<11264, 11311, 1, 48>>,
      <<11360, 11360, 1, 1>>, <<11362, 11362, 1, -10743>>, <<11363, 11363, 1, -3814>>,
      <<11364, 11364, 1, -10727>>, <<11367, 11371, 2, 1>>, <<11373, 11373, 1, -10780>>,
      <<11374, 11374, 1, -10749>>, <<11375, 11375, 1, -10783>>, <<11376, 11376, 1, -10782>>,
      <<11378, 11378, 1, 1>>, <<11381, 11381, 1, 1>>, <<11390, 11391, 1, -10815>>,
      <<11392, 11490, 2, 1>>, <<11499, 11501, 2, 1>>, <<11506, 11506, 1, 1>>,
      <<42560, 42604, 2, 1>>, <<42624, 42650, 2, 1>>, <<42786, 42798, 2, 1>>,
      <<42802, 42862, 2, 1>>, <<42873, 42875, 2, 1>>, <<42877, 42877, 1, -35332>>,
      <<42878, 42886, 2, 1>>, <<42891, 42891, 1, 1>>, <<42893, 42893, 1, -42280>>,
      <<42896, 42898, 2, 1>>, <<42902, 42920, 2, 1>>, <<42922, 42922, 1, -42308>>,
      <<42923, 42923, 1, -42319>>, <<42924, 42924, 1, -42315>>, <<42925, 42925, 1, -42305>>,
      <<42926, 42926, 1, -42308>>, <<42928, 42928, 1, -42258>>, <<42929, 42929, 1, -42282>>,
      <<42930, 42930, 1, -42261>>, <<42931, 42931, 1, 928>>, <<42932, 42946, 2, 1>>,
      <<42948, 42948, 1, -48>>, <<42949, 42949, 1, -42307>>, <<42950, 42950, 1, -35384>>,
      <<42951, 42953, 2, 1>>, <<42955, 42955, 1, -42343>>, <<42956, 42970, 2, 1>>,
      <<42972, 42972, 1, -42561>>, <<42997, 42997, 1, 1>>, <<65313, 65338, 1, 32>>,
      <<66560, 66599, 1, 40>>, <<66736, 66771, 1, 40>>, <<66928, 66938, 1, 39>>,
      <<66940, 66954, 1, 39>>, <<66956, 66962, 1, 39>>, <<66964, 66965, 1, 39>>,
      <<68736, 68786, 1, 64>>, <<68944, 68965, 1, 32>>, <<71840, 71871, 1, 32>>,
      <<93760, 93791, 1, 32>>, <<93856, 93880, 1, 27>>, <<125184, 125217, 1, 34>>
    >>

\* The chars with property Case_Ignorable.
CaseIgnorableRanges ==
    <<
      <<39, 39, 1>>, <<46, 46, 1>>, <<58, 58, 1>>, <<94, 96, 2>>, <<168, 168, 1>>,
      <<173, 175, 2>>, <<180, 180, 1>>, <<183, 184, 1>>, <<688, 879, 1>>, <<884, 885, 1>>,
      <<890, 890, 1>>, <<900, 901, 1>>, <<903, 903, 1>>, <<1155, 1161, 1>>, <<1369, 1369, 1>>,
      <<1375, 1375, 1>>, <<1425, 1469, 1>>, <<1471, 1473, 2>>, <<1474, 1476, 2>>,
      <<1477, 1479, 2>>, <<1524, 1524, 1>>, <<1536, 1541, 1>>, <<1552, 1562, 1>>,
      <<1564, 1564, 1>>, <<1600, 1600, 1>>, <<1611, 1631, 1>>, <<1648, 1648, 1>>,
      <<1750, 1757, 1>>, <<1759, 1768, 1>>, <<1770, 1773, 1>>, <<1807, 1809, 2>>,
      <<1840, 1866, 1>>, <<1958, 1968, 1>>, <<2027, 2037, 1>>, <<2042, 2042, 1>>,
      <<2045, 2045, 1>>, <<2070, 2093, 1>>, <<2137, 2139, 1>>, <<2184, 2184, 1>>,
      <<2192, 2193, 1>>, <<2199, 2207, 1>>, <<2249, 2306, 1>>, <<2362, 2364, 2>>,
      <<2369, 2376, 1>>, <<2381, 2381, 1>>, <<2385, 2391, 1>>, <<2402, 2403, 1>>,
      <<2417, 2417, 1>>, <<2433, 2433, 1>>, <<2492, 2492, 1>>, <<2497, 2500, 1>>,
      <<2509, 2509, 1>>, <<2530, 2531, 1>>, <<2558, 2558, 1>>, <<2561, 2562, 1>>,
      <<2620, 2620, 1>>, <<2625, 2626, 1>>, <<2631, 2632, 1>>, <<2635, 2637, 1>>,
      <<2641, 2641, 1>>, <<2672, 2673, 1>>, <<2677, 2677, 1>>, <<2689, 2690, 1>>,
      <<2748, 2748, 1>>, <<2753, 2757, 1>>, <<2759, 2760, 1>>, <<2765, 2765, 1>>,
      <<2786, 2787, 1>>, <<2810, 2815, 1>>, <<2817, 2817, 1>>, <<2876, 2876, 1>>,
      <<2879, 2881, 2>>, <<2882, 2884, 1>>, <<2893, 2893, 1>>, <<2901, 2902, 1>>,
      <<2914, 2915, 1>>, <<2946, 2946, 1>>, <<3008, 3008, 1>>, <<3021, 3021, 1>>,
      <<3072, 3072, 1>>, <<3076, 3076, 1>>, <<3132, 3134, 2>>, <<3135, 3136, 1>>,
      <<3142, 3144, 1>>, <<3146, 3149, 1>>, <<3157, 3158, 1>>, <<3170, 3171, 1>>,
      <<3201, 3201, 1>>, <<3260, 3260, 1>>, <<3263, 3263, 1>>, <<3270, 3270, 1>>,
      <<3276, 3277, 1>>, <<3298, 3299, 1>>, <<3328, 3329, 1>>, <<3387, 3388, 1>>,
      <<3393, 3396, 1>>, <<3405, 3405, 1>>, <<3426, 3427, 1>>, <<3457, 3457, 1>>,
      <<3530, 3530, 1>>, <<3538, 3540, 1>>, <<3542, 3542, 1>>, <<3633, 3633, 1>>,
      <<3636, 3642, 1>>, <<3654, 3662, 1>>, <<3761, 3761, 1>>, <<3764, 3772, 1>>,
      <<3782, 3784, 2>>, <<3785, 3790, 1>>, <<3864, 3865, 1>>, <<3893, 3897, 2>>,
      <<3953, 3966, 1>>, <<3968, 3972, 1>>, <<3974, 3975, 1>>, <<3981, 3991, 1>>,
      <<3993, 4028, 1>>, <<4038, 4038, 1>>, <<4141, 4144, 1>>, <<4146, 4151, 1>>,
      <<4153, 4154, 1>>, <<4157, 4158, 1>>, <<4184, 4185, 1>>, <<4190, 4192, 1>>,
      <<4209, 4212, 1>>, <<4226, 4226, 1>>, <<4229, 4230, 1>>, <<4237, 4237, 1>>,
      <<4253, 4253, 1>>, <<4348, 4348, 1>>, <<4957, 4959, 1>>, <<5906, 5908, 1>>,
      <<5938, 5939, 1>>, <<5970, 5971, 1>>, <<6002, 6003, 1>>, <<6068, 6069, 1>>,
      <<6071, 6077, 1>>, <<6086, 6086, 1>>, <<6089, 6099, 1>>, <<6103, 6103, 1>>,
      <<6109, 6109, 1>>, <<6155, 6159, 1>>, <<6211, 6211, 1>>, <<6277, 6278, 1>>,
      <<6313, 6313, 1>>, <<6432, 6434, 1>>, <<6439, 6440, 1>>, <<6450, 6450, 1>>,
      <<6457, 6459, 1>>, <<6679, 6680, 1>>, <<6683, 6683, 1>>, <<6742, 6744, 2>>,
      <<6745, 6750, 1>>, <<6752, 6754, 2>>, <<6757, 6764, 1>>, <<6771, 6780, 1>>,
      <<6783, 6783, 1>>, <<6823, 6823, 1>>, <<6832, 6877, 1>>, <<6880, 6891, 1>>,
      <<6912, 6915, 1>>, <<6964, 6966, 2>>, <<6967, 6970, 1>>, <<6972, 6972, 1>>,
      <<6978, 6978, 1>>, <<7019, 7027, 1>>, <<7040, 7041, 1>>, <<7074, 7077, 1>>,
      <<7080, 7081, 1>>, <<7083, 7085, 1>>, <<7142, 7144, 2>>, <<7145, 7145, 1>>,
      <<7149, 7151, 2>>, <<7152, 7153, 1>>, <<7212, 7219, 1>>, <<7222, 7223, 1>>,
      <<7288, 7293, 1>>, <<7376, 7378, 1>>, <<7380, 7392, 1>>, <<7394, 7400, 1>>,
      <<7405, 7405, 1>>, <<7412, 7412, 1>>, <<7416, 7417, 1>>, <<7468, 7530, 1>>,
      <<7544, 7544, 1>>, <<7579, 7679, 1>>, <<8125, 8127, 2>>, <<8128, 8129, 1>>,
      <<8141, 8143, 1>>, <<8157, 8159, 1>>, <<8173, 8175, 1>>, <<8189, 8190, 1>>,
      <<8203, 8207, 1>>, <<8216, 8217, 1>>, <<8228, 8228, 1>>, <<8231, 8231, 1>>,
      <<8234, 8238, 1>>, <<8288, 8292, 1>>, <<8294, 8303, 1>>, <<8305, 8305, 1>>,
      <<8319, 8319, 1>>, <<8336, 8348, 1>>, <<8400, 8432, 1>>, <<11388, 11389, 1>>,
      <<11503, 11505, 1>>, <<11631, 11631, 1>>, <<11647, 11647, 1>>, <<11744, 11775, 1>>,
      <<11823, 11823, 1>>, <<12293, 12293, 1>>, <<12330, 12333, 1>>, <<12337, 12341, 1>>,
      <<12347, 12347, 1>>, <<12441, 12446, 1>>, <<12540, 12542, 1>>, <<40981, 40981, 1>>,
      <<42232, 42237, 1>>, <<42508, 42508, 1>>, <<42607, 42610, 1>>, <<42612, 42621, 1>>,
      <<42623, 42623, 1>>, <<42652, 42655, 1>>, <<42736, 42737, 1>>, <<42752, 42785, 1>>,
      <<42864, 42864, 1>>, <<42888, 42890, 1>>, <<42993, 42996, 1>>, <<43000, 43001, 1>>,
      <<43010, 43010, 1>>, <<43014, 43014, 1>>, <<43019, 43019, 1>>, <<43045, 43046, 1>>,
      <<43052, 43052, 1>>, <<43204, 43205, 1>>, <<43232, 43249, 1>>, <<43263, 43263, 1>>,
      <<43302, 43309, 1>>, <<43335, 43345, 1>>, <<43392, 43394, 1>>, <<43443, 43443, 1>>,
      <<43446, 43449, 1>>, <<43452, 43453, 1>>, <<43471, 43471, 1>>, <<43493, 43494, 1>>,
      <<43561, 43566, 1>>, <<43569, 43570, 1>>, <<43573, 43574, 1>>, <<43587, 43587, 1>>,
      <<43596, 43596, 1>>, <<43632, 43632, 1>>, <<43644, 43644, 1>>, <<43696, 43698, 2>>,
      <<43699, 43700, 1>>, <<43703, 43704, 1>>, <<43710, 43711, 1>>, <<43713, 43713, 1>>,
      <<43741, 43741, 1>>, <<43756, 43757, 1>>, <<43763, 43764, 1>>, <<43766, 43766, 1>>,
      <<43867, 43871, 1>>, <<43881, 43883, 1>>, <<44005, 44005, 1>>, <<44008, 44008, 1>>,
      <<44013, 44013, 1>>, <<64286, 64286, 1>>, <<64434, 64450, 1>>, <<65024, 65039, 1>>,
      <<65043, 65043, 1>>, <<65056, 65071, 1>>, <<65106, 65106, 1>>, <<65109, 65109, 1>>,
      <<65279, 65279, 1>>, <<65287, 65287, 1>>, <<65294, 65294, 1>>, <<65306, 65306, 1>>,
      <<65342, 65344, 2>>, <<65392, 65392, 1>>, <<65438, 65439, 1>>, <<65507, 65507, 1>>,
      <<65529, 65531, 1>>, <<66045, 66045, 1>>, <<66272, 66272, 1>>, <<66422, 66426, 1>>,
      <<67456, 67461, 1>>, <<67463, 67504, 1>>, <<67506, 67514, 1>>, <<68097, 68099, 1>>,
      <<68101, 68102, 1>>, <<68108, 68111, 1>>, <<68152, 68154, 1>>, <<68159, 68159, 1>>,
      <<68325, 68326, 1>>, <<68900, 68903, 1>>, <<68942, 68942, 1>>, <<68969, 68973, 1>>,
      <<68975, 68975, 1>>, <<69291, 69292, 1>>, <<69317, 69317, 1>>, <<69370, 69375, 1>>,
      <<69446, 69456, 1>>, <<69506, 69509, 1>>, <<69633, 69633, 1>>, <<69688, 69702, 1>>,
      <<69744, 69744, 1>>, <<69747, 69748, 1>>, <<69759, 69761, 1>>, <<69811, 69814, 1>>,
      <<69817, 69818, 1>>, <<69821, 69821, 1>>, <<69826, 69826, 1>>, <<69837, 69837, 1>>,
      <<69888, 69890, 1>>, <<69927, 69931, 1>>, <<69933, 69940, 1>>, <<70003, 70003, 1>>,
      <<70016, 70017, 1>>, <<70070, 70078, 1>>, <<70089, 70092, 1>>, <<70095, 70095, 1>>,
      <<70191, 70193, 1>>, <<70196, 70198, 2>>, <<70199, 70199, 1>>, <<70206, 70206, 1>>,
      <<70209, 70209, 1>>, <<70367, 70367, 1>>, <<70371, 70378, 1>>, <<70400, 70401, 1>>,
      <<70459, 70460, 1>>, <<70464, 70464, 1>>, <<70502, 70508, 1>>, <<70512, 70516, 1>>,
      <<70587, 70592, 1>>, <<70606, 70610, 2>>, <<70625, 70626, 1>>, <<70712, 70719, 1>>,
      <<70722, 70724, 1>>, <<70726, 70726, 1>>, <<70750, 70750, 1>>, <<70835, 70840, 1>>,
      <<70842, 70842, 1>>, <<70847, 70848, 1>>, <<70850, 70851, 1>>, <<71090, 71093, 1>>,
      <<71100, 71101, 1>>, <<71103, 71104, 1>>, <<71132, 71133, 1>>, <<71219, 71226, 1>>,
      <<71229, 71231, 2>>, <<71232, 71232, 1>>, <<71339, 71341, 2>>, <<71344, 71349, 1>>,
      <<71351, 71351, 1>>, <<71453, 71455, 2>>, <<71458, 71461, 1>>, <<71463, 71467, 1>>,
      <<71727, 71735, 1>>, <<71737, 71738, 1>>, <<71995, 71996, 1>>, <<71998, 71998, 1>>,
      <<72003, 72003, 1>>, <<72148, 72151, 1>>, <<72154, 72155, 1>>, <<72160, 72160, 1>>,
      <<72193, 72202, 1>>, <<72243, 72248, 1>>, <<72251, 72254, 1>>, <<72263, 72263, 1>>,
      <<72273, 72278, 1>>, <<72281, 72283, 1>>, <<72330, 72342, 1>>, <<72344, 72345, 1>>,
      <<72544, 72546, 2>>, <<72547, 72548, 1>>, <<72550, 72550, 1>>, <<72752, 72758, 1>>,
      <<72760, 72765, 1>>, <<72767, 72767, 1>>, <<72850, 72871, 1>>, <<72874, 72880, 1>>,
      <<72882, 72883, 1>>, <<72885, 72886, 1>>, <<73009, 73014, 1>>, <<73018, 73020, 2>>,
      <<73021, 73023, 2>>, <<73024, 73029, 1>>, <<73031, 73031, 1>>, <<73104, 73105, 1>>,
      <<73109, 73111, 2>>, <<73177, 73177, 1>>, <<73459, 73460, 1>>, <<73472, 73473, 1>>,
      <<73526, 73530, 1>>, <<73536, 73538, 2>>, <<73562, 73562, 1>>, <<78896, 78912, 1>>,
      <<78919, 78933, 1>>, <<90398, 90409, 1>>, <<90413, 90415, 1>>, <<92912, 92916, 1>>,
      <<92976, 92982, 1>>, <<92992, 92995, 1>>, <<93504, 93506, 1>>, <<93547, 93548, 1>>,
      <<94031, 94031, 1>>, <<94095, 94111, 1>>, <<94176, 94177, 1>>, <<94179, 94180, 1>>,
      <<94194, 94195, 1>>, <<110576, 110579, 1>>, <<110581, 110587, 1>>, <<110589, 110590, 1>>,
      <<113821, 113822, 1>>, <<113824, 113827, 1>>, <<118528, 118573, 1>>,
      <<118576, 118598, 1>>, <<119143, 119145, 1>>, <<119155, 119170, 1>>,
      <<119173, 119179, 1>>, <<119210, 119213, 1>>, <<119362, 119364, 1>>,
      <<121344, 121398, 1>>, <<121403, 121452, 1>>, <<121461, 121461, 1>>,
      <<121476, 121476, 1>>, <<121499, 121503, 1>>, <<121505, 121519, 1>>,
      <<122880, 122886, 1>>, <<122888, 122904, 1>>, <<122907, 122913, 1>>,
      <<122915, 122916, 1>>, <<122918, 122922, 1>>, <<122928, 122989, 1>>,
      <<123023, 123023, 1>>, <<123184, 123197, 1>>, <<123566, 123566, 1>>,
      <<123628, 123631, 1>>, <<124139, 124143, 1>>, <<124398, 124399, 1>>,
      <<124643, 124643, 1>>, <<124646, 124646, 1>>, <<124654, 124655, 1>>,
      <<124661, 124661, 1>>, <<124671, 124671, 1>>, <<125136, 125142, 1>>,
      <<125252, 125259, 1>>, <<127995, 127999, 1>>, <<917505, 917505, 1>>,
      <<917536, 917631, 1>>, <<917760, 917999, 1>>
    >>

\* The chars with property Cased.
CasedRanges ==
    <<
      <<65, 90, 1>>, <<97, 122, 1>>, <<170, 170, 1>>, <<181, 181, 1>>, <<186, 186, 1>>,
      <<192, 214, 1>>, <<216, 246, 1>>, <<248, 442, 1>>, <<444, 447, 1>>, <<452, 659, 1>>,
      <<662, 696, 1>>, <<704, 705, 1>>, <<736, 740, 1>>, <<837, 837, 1>>, <<880, 883, 1>>,
      <<886, 887, 1>>, <<890, 893, 1>>, <<895, 895, 1>>, <<902, 904, 2>>, <<905, 906, 1>>,
      <<908, 910, 2>>, <<911, 929, 1>>, <<931, 1013, 1>>, <<1015, 1153, 1>>, <<1162, 1327, 1>>,
      <<1329, 1366, 1>>, <<1376, 1416, 1>>, <<4256, 4293, 1>>, <<4295, 4295, 1>>,
      <<4301, 4301, 1>>, <<4304, 4346, 1>>, <<4348, 4351, 1>>, <<5024, 5109, 1>>,
      <<5112, 5117, 1>>, <<7296, 7306, 1>>, <<7312, 7354, 1>>, <<7357, 7359, 1>>,
      <<7424, 7615, 1>>, <<7680, 7957, 1>>, <<7960, 7965, 1>>, <<7968, 8005, 1>>,
      <<8008, 8013, 1>>, <<8016, 8023, 1>>, <<8025, 8031, 2>>, <<8032, 8061, 1>>,
      <<8064, 8116, 1>>, <<8118, 8124, 1>>, <<8126, 8126, 1>>, <<8130, 8132, 1>>,
      <<8134, 8140, 1>>, <<8144, 8147, 1>>, <<8150, 8155, 1>>, <<8160, 8172, 1>>,
      <<8178, 8180, 1>>, <<8182, 8188, 1>>, <<8305, 8305, 1>>, <<8319, 8319, 1>>,
      <<8336, 8348, 1>>, <<8450, 8450, 1>>, <<8455, 8455, 1>>, <<8458, 8467, 1>>,
      <<8469, 8469, 1>>, <<8473, 8477, 1>>, <<8484, 8490, 2>>, <<8491, 8493, 1>>,
      <<8495, 8500, 1>>, <<8505, 8505, 1>>, <<8508, 8511, 1>>, <<8517, 8521, 1>>,
      <<8526, 8526, 1>>, <<8544, 8575, 1>>, <<8579, 8580, 1>>, <<9398, 9449, 1>>,
      <<11264, 11492, 1>>, <<11499, 11502, 1>>, <<11506, 11507, 1>>, <<11520, 11557, 1>>,
      <<11559, 11559, 1>>, <<11565, 11565, 1>>, <<42560, 42605, 1>>, <<42624, 42653, 1>>,
      <<42786, 42887, 1>>, <<42891, 42894, 1>>, <<42896, 42972, 1>>, <<42993, 42998, 1>>,
      <<43000, 43002, 1>>, <<43824, 43866, 1>>, <<43868, 43881, 1>>, <<43888, 43967, 1>>,
      <<64256, 64262, 1>>, <<64275, 64279, 1>>, <<65313, 65338, 1>>, <<65345, 65370, 1>>,
      <<66560, 66639, 1>>, <<66736, 66771, 1>>, <<66776, 66811, 1>>, <<66928, 66938, 1>>,
      <<66940, 66954, 1>>, <<66956, 66962, 1>>, <<66964, 66965, 1>>, <<66967, 66977, 1>>,
      <<66979, 66993, 1>>, <<66995, 67001, 1>>, <<67003, 67004, 1>>, <<67456, 67456, 1>>,
      <<67459, 67461, 1>>, <<67463, 67504, 1>>, <<67506, 67514, 1>>, <<68736, 68786, 1>>,
      <<68800, 68850, 1>>, <<68944, 68965, 1>>, <<68976, 68997, 1>>, <<71840, 71903, 1>>,
      <<93760, 93823, 1>>, <<93856, 93880, 1>>, <<93883, 93907, 1>>, <<119808, 119892, 1>>,
      <<119894, 119964, 1>>, <<119966, 119967, 1>>, <<119970, 119970, 1>>,
      <<119973, 119974, 1>>, <<119977, 119980, 1>>, <<119982, 119993, 1>>,
      <<119995, 119997, 2>>, <<119998, 120003, 1>>, <<120005, 120069, 1>>,
      <<120071, 120074, 1>>, <<120077, 120084, 1>>, <<120086, 120092, 1>>,
      <<120094, 120121, 1>>, <<120123, 120126, 1>>, <<120128, 120132, 1>>,
      <<120134, 120134, 1>>, <<120138, 120144, 1>>, <<120146, 120485, 1>>,
      <<120488, 120512, 1>>, <<120514, 120538, 1>>, <<120540, 120570, 1>>,
      <<120572, 120596, 1>>, <<120598, 120628, 1>>, <<120630, 120654, 1>>,
      <<120656, 120686, 1>>, <<120688, 120712, 1>>, <<120714, 120744, 1>>,
      <<120746, 120770, 1>>, <<120772, 120779, 1>>, <<122624, 122633, 1>>,
      <<122635, 122654, 1>>, <<122661, 122666, 1>>, <<122928, 122989, 1>>,
      <<125184, 125251, 1>>, <<127280, 127305, 1>>, <<127312, 127337, 1>>,
      <<127344, 127369, 1>>
    >>

Case_Ignorable == CharsOf(CaseIgnorableRanges)
Cased == CharsOf(CasedRanges)

\* char -> its one-char lowercase mapping, for the chars that change.
LowercaseTable ==
    LET pairs == UNION {{<<CharOf(cp), CharOf(cp + LowercaseRanges[k][4])>> :
                            cp \in {x \in LowercaseRanges[k][1]..LowercaseRanges[k][2] :
                                       (x - LowercaseRanges[k][1]) % LowercaseRanges[k][3] = 0}} :
                        k \in 1..Len(LowercaseRanges)}
    IN  [c \in {p[1] : p \in pairs} |-> (CHOOSE p \in pairs : p[1] = c)[2]]

CAPITAL_SIGMA == CharOf(931)
SMALL_SIGMA == CharOf(963)
SMALL_FINAL_SIGMA == CharOf(962)
CAPITAL_I_WITH_DOT_ABOVE == CharOf(304)
COMBINING_DOT_ABOVE == CharOf(775)

\* char::to_lowercase: the chars c maps to.  U+0130 is the one char whose
\* mapping has two chars.
LowerOf(c) ==
    IF c = CAPITAL_I_WITH_DOT_ABOVE THEN <<"i", COMBINING_DOT_ABOVE>>
    ELSE IF c \in DOMAIN LowercaseTable THEN <<LowercaseTable[c]>>
    ELSE <<c>>

\* The first char of chars that is not Case_Ignorable is Cased.
case_ignorable_then_cased(chars) ==
    LET rest == {j \in 1..Len(chars) : chars[j] \notin Case_Ignorable}
    IN  rest # {} /\ chars[CHOOSE j \in rest : \A k \in rest : j <= k] \in Cased

Reverse(s) == [j \in 1..Len(s) |-> s[Len(s) + 1 - j]]

\* The capital sigma s[i] ends a word: a cased char before it and none after
\* it, case-ignorable chars skipped.
is_word_final(s, i) ==
    /\ case_ignorable_then_cased(Reverse(SubSeq(s, 1, i - 1)))
    /\ ~case_ignorable_then_cased(SubSeq(s, i + 1, Len(s)))

\* str::to_lowercase: every char by its lowercase mapping, capital sigma by
\* the final small sigma at the end of a word and by small sigma elsewhere.
to_lowercase(s) ==
    Flatten([i \in 1..Len(s) |->
        IF s[i] = CAPITAL_SIGMA
        THEN <<IF is_word_final(s, i) THEN SMALL_FINAL_SIGMA ELSE SMALL_SIGMA>>
        ELSE LowerOf(s[i])])

(***************************************************************************)
(* select_model                                                            *)
(***************************************************************************)
MODEL_HAIKU == <<"c", "l", "a", "u", "d", "e", "-", "h", "a", "i", "k", "u", "-", "4", "-", "5", "-", "2", "0", "2", "5", "1", "0", "0", "1">>
MODEL_SONNET == <<"c", "l", "a", "u", "d", "e", "-", "s", "o", "n", "n", "e", "t", "-", "4", "-", "5", "-", "2", "0", "2", "5", "0", "9", "2", "9">>

S_haiku == <<"h", "a", "i", "k", "u">>
S_sonnet == <<"s", "o", "n", "n", "e", "t">>
S_auto == <<"a", "u", "t", "o">>

\* The substrings that select the larger model.
SonnetKeywords ==
    {<<"t", "r", "a", "n", "s", "l", "a", "t">>,
     <<"U+043F", "U+0435", "U+0440", "U+0435", "U+0432", "U+043E", "U+0434">>,
     <<"U+00FC", "b", "e", "r", "s", "e", "t", "z", "e">>,
     <<"t", "r", "a", "d", "u", "i">>,
     <<"q", "a">>,
     <<"q", "u", "a", "l", "i", "t", "y">>,
     <<"c", "h", "e", "c", "k">>,
     <<"r", "e", "v", "i", "e", "w">>,
     <<"f", "i", "x">>,
     <<"c", "o", "r", "r", "e", "c", "t">>,
     <<"u", "p", "d", "a", "t", "e">>,
     <<"c", "h", "a", "n", "g", "e">>,
     <<"e", "d", "i", "t">>,
     <<"i", "m", "p", "r", "o", "v", "e">>}


\* str::contains
contains(s, pat) ==
    \E i \in 1..(Len(s) - Len(pat) + 1) : SubSeq(s, i, i + Len(pat) - 1) = pat

\* A selection that auto-detects for every preference it does not know.
select_model_UnknownAuto(requested, messages) ==
    IF requested = Some(S_haiku) THEN MODEL_HAIKU
    ELSE IF requested = Some(S_sonnet) THEN MODEL_SONNET
    ELSE IF messages # <<>> /\ messages[Len(messages)].content.t = "string"
            /\ ~\E kw \in SonnetKeywords :
                   contains(to_lowercase(messages[Len(messages)].content.s), kw)
    THEN MODEL_HAIKU
    ELSE MODEL_SONNET

\* A selection that looks for the keywords without lowercasing the text.
select_model_CaseSensitive(requested, messages) ==
    IF requested = Some(S_haiku) THEN MODEL_HAIKU
    ELSE IF requested = Some(S_sonnet) THEN MODEL_SONNET
    ELSE IF requested = Some(S_auto) \/ ~requested.some
    THEN IF messages # <<>> /\ messages[Len(messages)].content.t = "string"
            /\ ~\E kw \in SonnetKeywords : contains(messages[Len(messages)].content.s, kw)
         THEN MODEL_HAIKU
         ELSE MODEL_SONNET
    ELSE MODEL_SONNET

\* requested is an Option<&str>; a message is [role, content], content a Value.
select_model(requested, messages) ==
    IF requested = Some(S_haiku) THEN MODEL_HAIKU
    ELSE IF requested = Some(S_sonnet) THEN MODEL_SONNET
    ELSE IF requested = Some(S_auto) \/ ~requested.some
    THEN LET last_message ==
                 IF messages # <<>> /\ messages[Len(messages)].content.t = "string"
                 THEN Some(to_lowercase(messages[Len(messages)].content.s))
                 ELSE None
         IN  IF last_message.some
             THEN IF \E kw \in SonnetKeywords : contains(last_message.v, kw)
                  THEN MODEL_SONNET
                  ELSE MODEL_HAIKU
             ELSE MODEL_SONNET
    ELSE MODEL_SONNET

(***************************************************************************)
(* The tools array of the request body                                     *)
(***************************************************************************)
S_cache_control == <<"c", "a", "c", "h", "e", "_", "c", "o", "n", "t", "r", "o", "l">>
S_ephemeral == <<"e", "p", "h", "e", "m", "e", "r", "a", "l">>

\* ChatRequest.tools is an Option<Vec<Value>>.
NoTools == [some |-> FALSE, v |-> <<>>]

\* serde_json::json!({ "type": "ephemeral" })
Ephemeral == JObject(<<<<S_type, JString(S_ephemeral)>>>>)

\* obj.insert("cache_control", ..) on a tool that is an object.
InsertCacheControl(tool) ==
    IF tool.t = "object" THEN JObject(ObjInsert(tool.o, S_cache_control, Ephemeral)) ELSE tool

\* `obj.len() - 1` on usize underflows for an object with no field: a panic
\* with overflow checks compiled in, usize::MAX without them.
LenMinusOneUnderflows(tool) == tool.t = "object" /\ Len(tool.o) = 0

\* The closure of .enumerate().map(..): i is the tool's index from 0.
MapTool(i, tool) ==
    IF tool.t = "object" /\ Len(tool.o) > 0 /\ i = Len(tool.o) - 1
    THEN InsertCacheControl(tool)
    ELSE tool

\* if let Some(last) = tools_with_cache.last_mut() { .. }
MarkLast(tools) ==
    [n \in 1..Len(tools) |-> IF n = Len(tools) THEN InsertCacheControl(tools[n]) ELSE tools[n]]

\* The tools of the request body: absent when the request has no tool or an
\* empty list; panicked when the index arithmetic aborts the task.
BuildTools(tools, checks) ==
    IF ~tools.some \/ tools.v = <<>>
    THEN [panicked |-> FALSE, tools |-> NoTools]
    ELSE IF checks /\ \E n \in 1..Len(tools.v) : LenMinusOneUnderflows(tools.v[n])
    THEN [panicked |-> TRUE, tools |-> NoTools]
    ELSE [panicked |-> FALSE,
          tools |-> Some(MarkLast([n \in 1..Len(tools.v) |-> MapTool(n - 1, tools.v[n])]))]

\* The request handed to send(): the credential header, the model and the
\* tools of the body.
NotSent == [some |-> FALSE, x_api_key |-> "", model |-> <<>>, tools |-> NoTools]
HttpRequest(key, model, tools) ==
    [some |-> TRUE, x_api_key |-> key, model |-> model, tools |-> tools]

(***************************************************************************)
(* The upstream response body.  A script is a sequence of frame            *)
(* descriptors [kind, s1, s2, s3]; FrameText writes a frame as the server  *)
(* sends it and utf8_encode gives its bytes.                               *)
(***************************************************************************)
Fr(kind, s1, s2, s3) == [kind |-> kind, s1 |-> s1, s2 |-> s2, s3 |-> s3]

JsonEscape(s) ==
    Flatten([i \in 1..Len(s) |->
        IF s[i] \in {"\"", "\\"} THEN <<"\\", s[i]>> ELSE <<s[i]>>])

Quote(s) == <<"\"">> \o JsonEscape(s) \o <<"\"">>
Member(k, vtext) == Quote(k) \o <<":">> \o vtext
RECURSIVE JoinComma(_)
JoinComma(ms) ==
    IF ms = <<>> THEN <<>>
    ELSE IF Len(ms) = 1 THEN ms[1]
    ELSE ms[1] \o <<",">> \o JoinComma(Tail(ms))
Obj(ms) == <<"{">> \o JoinComma(ms) \o <<"}">>
OptMember(k, vtext) == IF vtext = <<>> THEN <<>> ELSE <<Member(k, vtext)>>

FrameJson(f) ==
    CASE f.kind = "message_start" ->
           Obj(<<Member(S_type, Quote(S_message_start)),
                 Member(S_message, Obj(<<Member(S_usage,
                     Obj(OptMember(S_input_tokens, f.s1)
                         \o OptMember(S_cache_read_input_tokens, f.s2)
                         \o OptMember(S_cache_creation_input_tokens, f.s3)))>>))>>)
      [] f.kind = "tool_start" ->
           Obj(<<Member(S_type, Quote(S_content_block_start)),
                 Member(S_content_block,
                        Obj(<<Member(S_type, Quote(S_tool_use)),
                              Member(S_id, Quote(f.s1)),
                              Member(S_name, Quote(f.s2))>>))>>)
      [] f.kind = "block_start" ->
           Obj(<<Member(S_type, Quote(S_content_block_start)),
                 Member(S_content_block,
                        Obj(<<Member(S_type, Quote(f.s1))>>
                            \o OptMember(S_id, f.s2) \o OptMember(S_name, f.s3)))>>)
      [] f.kind = "json_delta" ->
           Obj(<<Member(S_type, Quote(S_content_block_delta)),
                 Member(S_delta, Obj(<<Member(S_type, Quote(S_input_json_delta)),
                                       Member(S_partial_json, Quote(f.s1))>>))>>)
      [] f.kind = "text_delta" ->
           Obj(<<Member(S_type, Quote(S_content_block_delta)),
                 Member(S_delta, Obj(<<Member(S_type, Quote(S_text_delta)),
                                       Member(S_text, Quote(f.s1))>>))>>)
      [] f.kind = "block_stop" -> Obj(<<Member(S_type, Quote(S_content_block_stop))>>)
      [] f.kind = "message_delta" ->
           Obj(<<Member(S_type, Quote(S_message_delta)),
                 Member(S_usage, Obj(OptMember(S_output_tokens, f.s1)))>>)
      [] f.kind = "message_stop" -> Obj(<<Member(S_type, Quote(S_message_stop))>>)

\* A "raw" frame is sent as written in s1; "open" is text with no blank line
\* after it (the stream ends inside the frame).
FrameText(f) ==
    CASE f.kind = "raw" -> f.s1 \o <<NL, NL>>
      [] f.kind = "open" -> f.s1
      [] OTHER -> DATA_PREFIX \o FrameJson(f) \o <<NL, NL>>

utf8_encode(s) ==
    Flatten([i \in 1..Len(s) |-> IF s[i] = E_ACUTE THEN <<"xC3", "xA9">> ELSE <<s[i]>>])

FrameBytes(f) == utf8_encode(FrameText(f))
ScriptBytes(sc) == Flatten([i \in 1..Len(sc) |-> FrameBytes(sc[i])])

\* Offset of the last byte of each frame of a body.
RECURSIVE EndOffset(_, _)
EndOffset(sc, k) == IF k = 0 THEN 0 ELSE EndOffset(sc, k - 1) + Len(FrameBytes(sc[k]))
FrameEnds(sc) == [k \in 1..Len(sc) |-> EndOffset(sc, k)]

(***************************************************************************)
(* Inputs of the model                                                     *)
(***************************************************************************)
StreamIds == {"s1", "s2"}

\* Names of the tasks chat_stream spawns.  A task is named after the stream
\* identifier of its request; a task spawned when one of that name is there
\* already takes an extra name.
ExtraTasks == {"x1"}
Tasks == StreamIds \cup ExtraTasks

MsgStart(n, cr, cw) == Fr("message_start", n, cr, cw)
ToolStart(id, name) == Fr("tool_start", id, name, <<>>)
\* A content_block_start of block type btype; id and name are JSON texts,
\* <<>> when the member is absent.
BlockStart(btype, id, name) == Fr("block_start", btype, id, name)
JsonDelta(json) == Fr("json_delta", json, <<>>, <<>>)
TextDelta(text) == Fr("text_delta", text, <<>>, <<>>)
BlockStop == Fr("block_stop", <<>>, <<>>, <<>>)
MsgDelta(n) == Fr("message_delta", n, <<>>, <<>>)
MsgStop == Fr("message_stop", <<>>, <<>>, <<>>)
Raw(text) == Fr("raw", text, <<>>, <<>>)
Open(text) == Fr("open", text, <<>>, <<>>)

T1 == <<"t", "1">>
T2 == <<"t", "2">>
LOOKUP == <<"l", "o", "o", "k", "u", "p">>
DoneLine == DATA_PREFIX \o DONE_SENTINEL

\* The response bodies the server may send.
Scripts ==
    { <<MsgStart(<<"1", "0">>, <<>>, <<>>), MsgDelta(<<"5">>), MsgStop>>,
      <<ToolStart(T1, LOOKUP), JsonDelta(<<"{", "\"", "q", "\"", ":">>), JsonDelta(<<"\"", "x", "\"", "}">>), BlockStop>>,
      <<ToolStart(T1, LOOKUP), JsonDelta(<<"\"", E_ACUTE, "\"">>), BlockStop>>,
      <<TextDelta(<<"H", "i">>), TextDelta(<<E_ACUTE>>), MsgStop, TextDelta(<<"x">>)>>,
      <<Raw(DoneLine)>>,
      <<ToolStart(T1, LOOKUP), BlockStop, ToolStart(T2, LOOKUP), JsonDelta(<<"{", "o", "o", "p", "s">>),
        BlockStop, TextDelta(<<"o", "k">>)>>,
      <<MsgStart(<<"7">>, <<"2">>, <<"1">>), MsgStop, MsgDelta(<<"3">>), MsgStop>>,
      <<JsonDelta(<<"7">>), BlockStop, ToolStart(T1, LOOKUP), JsonDelta(<<"[", "1", "]">>),
        BlockStop>>,
      <<MsgStart(<<"4", "2", "9", "4", "9", "6", "7", "2", "9", "5">>, <<>>, <<>>), MsgStart(<<"1">>, <<>>, <<>>), MsgStop>>,
      <<TextDelta(<<"a">>), ToolStart(T1, LOOKUP), TextDelta(<<"b">>), JsonDelta(<<"{", "}">>),
        BlockStop, MsgDelta(<<"4">>), MsgDelta(<<"1">>), Raw(DoneLine), MsgStop>>,
      <<Raw(<<"e", "v", "e", "n", "t", ":", " ", "p", "i", "n", "g", "\n", "d", "a", "t", "a", ":", " ", "{", "\"", "t", "y", "p", "e", "\"", ":", "\"", "p", "i", "n", "g", "\"", "}">>), Raw(<<":", " ", "k", "e", "e", "p", "a", "l", "i", "v", "e", "\n", "d", "a", "t", "a", ":", " ", "{", "\"", "t", "y", "p", "e", "\"", ":", "\n", "d", "a", "t", "a", ":", " ", "[", "1", "]">>), TextDelta(<<"z">>), Open(<<"d", "a", "t", "a", ":", " ", "{", "\"", "t", "y", "p", "e", "\"", ":", "\"", "m", "e", "s", "s", "a", "g", "e", "_", "s", "t", "o", "p", "\"", "}">>)>> }

Message(role, content) == [role |-> role, content |-> content]
ChatRequest(stream_id, model, messages, tools) ==
    [stream_id |-> stream_id, model |-> model, messages |-> messages, tools |-> tools]

\* Requests that the server answers with one short body: a tool call with
\* no input, an output count and the end of the message, a text and the end
\* of the message.
Ask(text) == <<Message("user", JString(text))>>
AskTool == Ask(<<"t", "o", "o", "l">>)
AskCount == Ask(<<"c", "o", "u", "n", "t">>)
AskText == Ask(<<"s", "a", "y">>)
ShortToolCall == <<ToolStart(T1, LOOKUP), BlockStop>>
ShortCount == <<MsgDelta(<<"3">>), MsgStop>>
ShortText == <<TextDelta(<<"a">>), MsgStop>>

\* Bodies about the tool-call slot, the counters of message_start, frames
\* without a data line and a stream that ends inside a frame.
AskBlocks == Ask(<<"b", "l", "o", "c", "k", "s">>)
NoMember == <<>>
BlockScripts ==
    { <<ToolStart(T1, LOOKUP), JsonDelta(<<"{", "\"", "a", "\"", ":", "1", "}">>), ToolStart(T2, LOOKUP),
        JsonDelta(<<"{", "\"", "b", "\"", ":", "2", "}">>), BlockStop, BlockStop>>,
      <<BlockStart(S_tool_use, NoMember, Quote(LOOKUP)), JsonDelta(<<"[", "1", "]">>), BlockStop,
        JsonDelta(<<"7">>), ToolStart(T1, LOOKUP), JsonDelta(<<"[", "2", "]">>), BlockStop>>,
      <<BlockStart(S_tool_use, Quote(T1), NoMember), BlockStop, MsgStop>>,
      <<BlockStart(S_tool_use, <<"7">>, Quote(LOOKUP)), JsonDelta(<<"[", "3", "]">>), BlockStop,
        TextDelta(<<"o", "k">>)>>,
      <<ToolStart(T1, LOOKUP), BlockStart(S_text, NoMember, NoMember), JsonDelta(<<"{", "}">>),
        BlockStop, JsonDelta(<<"[", "4", "]">>), BlockStop>>,
      <<MsgStart(<<"3">>, <<"2">>, NoMember), MsgStart(NoMember, NoMember, <<"4">>),
        MsgDelta(<<"1">>), MsgStop>>,
      <<MsgStart(<<"1">>, <<"4", "2", "9", "4", "9", "6", "7", "2", "9", "5">>, <<"2">>), MsgDelta(<<"5">>),
        MsgStart(NoMember, <<"1">>, NoMember), MsgStop>>,
      <<Raw(<<"e", "v", "e", "n", "t", ":", " ", "p", "i", "n", "g">>), Raw(<<":", " ", "k", "e", "e", "p", "a", "l", "i", "v", "e">>), Raw(<<>>),
        Raw(<<"d", "a", "t", "a", ":", "{", "\"", "t", "y", "p", "e", "\"", ":", "\"", "m", "e", "s", "s", "a", "g", "e", "_", "s", "t", "o", "p", "\"", "}">>), TextDelta(<<"z">>)>>,
      <<ToolStart(T1, LOOKUP), JsonDelta(<<"{", "}">>),
        Open(<<"d", "a", "t", "a", ":", " ", "{", "\"", "t", "y", "p", "e", "\"", ":", "\"", "c", "o", "n", "t", "e", "n", "t", "_", "b", "l", "o", "c", "k", "_", "s", "t", "o", "p", "\"", "}">> \o <<NL>>)>>,
      <<TextDelta(<<"a">>), Open(<<"d", "a", "t", "a", ":", " ", "{", "\"", "t", "y", "p", "e", "\"", ":", "\"", "m", "e", "s", "s", "a", "g", "e", "_", "s", "t", "o", "p", "\"", "}">>)>> }

\* The bodies the server may answer a request with.
Bodies(req) ==
    CASE req.messages = AskTool -> {ShortToolCall}
      [] req.messages = AskCount -> {ShortCount}
      [] req.messages = AskText -> {ShortText}
      [] req.messages = AskBlocks -> BlockScripts
      [] OTHER -> Scripts

\* The requests the caller may submit.
Requests ==
    { ChatRequest("s1", None, <<Message("user", JString(<<"F", "i", "x">>))>>, NoTools) }

\* The transport cuts the body into chunks of 1..MaxChunk bytes, or of
\* BigChunk bytes (several frames at once); the last chunk is what is left.
MaxChunk == 3
BigChunk == 100

(***************************************************************************)
(* State                                                                   *)
(***************************************************************************)
VARIABLES
    api_key,            \* ApiKeyState: the shared Option<String>
    overflow_checks,    \* whether the build panics on integer overflow
    pending,            \* requests the caller has yet to submit
    returned,           \* per stream: what the last chat_stream command returned
    pc,                 \* per task: where it stands
    request,            \* per task: the request moved into the task
    task_key,           \* per task: the task's copy of the credential
    sent,               \* per task: the request handed to send()
    listening,          \* per stream: whether a subscriber listens on its topic
    script,             \* per task: the body the server sends (descriptors)
    wire,               \* per task: that body as bytes
    frame_ends,         \* per task: the offset in wire where each frame ends
    pos,                \* per task: number of bytes delivered so far
    buffer,             \* per task: run_chat_stream's local `buffer`
    total_usage,        \* per task: local `total_usage`
    current_tool_id,    \* per task: local `current_tool_id`
    current_tool_name,  \* per task: local `current_tool_name`
    current_tool_input, \* per task: local `current_tool_input`
    published,          \* per stream: events emitted on chat-event-<stream_id>
    delivered,          \* per stream: the emitted events that reached a subscriber
    child,              \* McpServer.child: the helper process, if any
    stdin,              \* McpServer.stdin: the pipe into that helper, if any
    stdout_reader,      \* McpServer.stdout_reader: the reader on its output, if any
    mutex,              \* McpState's Mutex: "free" or the caller holding it
    mcp_pc,             \* per caller: where its command stands
    mcp_call,           \* per caller: the command it invoked and its message
    mcp_result,         \* per caller: what its last command returned
    mcp_local,          \* per caller: spawn_mcp_server's local `child`
    helpers,            \* per helper process: its status and its two pipes
    calls               \* number of commands invoked so far

vars == <<api_key, overflow_checks, pending, returned, pc, request, task_key, sent, listening, script,
          wire, frame_ends, pos, buffer, total_usage, current_tool_id, current_tool_name,
          current_tool_input, published, delivered, child, stdin, stdout_reader, mutex, mcp_pc,
          mcp_call, mcp_result, mcp_local, helpers, calls>>

session_vars == <<buffer, total_usage, current_tool_id, current_tool_name,
                  current_tool_input>>
upstream_vars == <<script, wire, frame_ends, pos>>
mcp_vars == <<child, stdin, stdout_reader, mutex, mcp_pc, mcp_call, mcp_result, mcp_local,
              helpers, calls>>
chat_vars == <<api_key, overflow_checks, pending, returned, pc, request, task_key, sent, listening,
               published, delivered, session_vars, upstream_vars>>

\* The helper side of the model: callers of the four commands, the helper
\* processes that may be started, and the lines that travel on the pipes.
McpCallers == {"c1", "c2"}
MaxCalls == 4
MaxHelpers == 2
HelperIds == 1..MaxHelpers
NoHandle == [some |-> FALSE, v |-> 0]
Handle(h) == [some |-> TRUE, v |-> h]
NoLine == [kind |-> "none", caller |-> "", n |-> 0]
RequestLine(c, n) == [kind |-> "request", caller |-> c, n |-> n]
NotificationLine(c, n) == [kind |-> "notification", caller |-> c, n |-> n]
ResponseTo(line) == [line EXCEPT !.kind = "response"]
EndOfFile == [kind |-> "eof", caller |-> "", n |-> 0]
McpOk(text, line) == [ok |-> TRUE, text |-> text, line |-> line]
McpErr(text) == [ok |-> FALSE, text |-> text, line |-> NoLine]
NoResult == [ok |-> TRUE, text |-> "none", line |-> NoLine]
NoCall == [op |-> "none", message |-> NoLine]
NotStarted == [status |-> "none", inq |-> <<>>, outq |-> <<>>]

\* manage(McpState(Mutex::new(McpServer { child: None, stdin: None,
\* stdout_reader: None }))); no command has been invoked.
InitMcp ==
    /\ child = NoHandle
    /\ stdin = NoHandle
    /\ stdout_reader = NoHandle
    /\ mutex = "free"
    /\ mcp_pc = [c \in McpCallers |-> "idle"]
    /\ mcp_call = [c \in McpCallers |-> NoCall]
    /\ mcp_result = [c \in McpCallers |-> NoResult]
    /\ mcp_local = [c \in McpCallers |-> 0]
    /\ helpers = [h \in HelperIds |-> NotStarted]
    /\ calls = 0

NoKey == [some |-> FALSE, v |-> ""]
NoRequest == ChatRequest("", None, <<>>, NoTools)

\* The stream identifier of the task t, which names the topic of its events.
Topic(t) == IF t \in StreamIds THEN t ELSE request[t].stream_id

Session(sid) ==
    [buffer |-> buffer[sid],
     total_usage |-> total_usage[sid],
     current_tool_id |-> current_tool_id[sid],
     current_tool_name |-> current_tool_name[sid],
     current_tool_input |-> current_tool_input[sid],
     out |-> <<>>,
     panicked |-> FALSE,
     listening |-> listening[Topic(sid)]]

InitCommon ==
    /\ overflow_checks \in BOOLEAN
    /\ returned = [s \in StreamIds |-> "none"]
    /\ pc = [s \in Tasks |-> "idle"]
    /\ request = [s \in Tasks |-> NoRequest]
    /\ task_key = [s \in Tasks |-> NoKey]
    /\ sent = [s \in Tasks |-> NotSent]
    /\ script = [s \in Tasks |-> <<>>]
    /\ wire = [s \in Tasks |-> <<>>]
    /\ frame_ends = [s \in Tasks |-> <<>>]
    /\ pos = [s \in Tasks |-> 0]
    /\ buffer = [s \in Tasks |-> NewSession.buffer]
    /\ total_usage = [s \in Tasks |-> NewSession.total_usage]
    /\ current_tool_id = [s \in Tasks |-> NewSession.current_tool_id]
    /\ current_tool_name = [s \in Tasks |-> NewSession.current_tool_name]
    /\ current_tool_input = [s \in Tasks |-> NewSession.current_tool_input]
    /\ published = [s \in StreamIds |-> <<>>]
    /\ delivered = [s \in StreamIds |-> <<>>]
    /\ InitMcp

\* run(): the credential starts absent.  The caller listens on the topic
\* of the stream it is about to request.
Init ==
    /\ api_key = NoKey
    /\ listening = [s \in StreamIds |-> TRUE]
    /\ pending \in {{r} : r \in Requests}
    /\ InitCommon

(***************************************************************************)
(* set_api_key, clear_api_key                                              *)
(***************************************************************************)
Keys == {"k1"}

SetApiKey(key) ==
    /\ api_key' = Some(key)
    /\ UNCHANGED <<overflow_checks, pending, returned, pc, request, task_key, sent, listening, published, delivered>>
    /\ UNCHANGED <<session_vars, upstream_vars>>
    /\ UNCHANGED mcp_vars

ClearApiKey ==
    /\ api_key' = NoKey
    /\ UNCHANGED <<overflow_checks, pending, returned, pc, request, task_key, sent, listening, published, delivered>>
    /\ UNCHANGED <<session_vars, upstream_vars>>
    /\ UNCHANGED mcp_vars

(***************************************************************************)
(* The subscriber of a stream's topic comes and goes.                      *)
(***************************************************************************)
Listen(sid) ==
    /\ ~listening[sid]
    /\ listening' = [listening EXCEPT ![sid] = TRUE]
    /\ UNCHANGED <<api_key, overflow_checks, pending, returned, pc, request, task_key, sent,
                   published, delivered>>
    /\ UNCHANGED <<session_vars, upstream_vars>>
    /\ UNCHANGED mcp_vars

Unlisten(sid) ==
    /\ listening[sid]
    /\ listening' = [listening EXCEPT ![sid] = FALSE]
    /\ UNCHANGED <<api_key, overflow_checks, pending, returned, pc, request, task_key, sent,
                   published, delivered>>
    /\ UNCHANGED <<session_vars, upstream_vars>>
    /\ UNCHANGED mcp_vars

(***************************************************************************)
(* chat_stream                                                             *)
(***************************************************************************)
\* No credential: the command returns Err before anything is spawned,
\* whatever tasks there are.
ChatStreamNoKey(req) ==
    /\ req \in pending
    /\ ~api_key.some
    /\ pending' = pending \ {req}
    /\ returned' = [returned EXCEPT ![req.stream_id] = "Err"]
    /\ UNCHANGED <<api_key, overflow_checks, pc, request, task_key, sent, listening, published, delivered>>
    /\ UNCHANGED <<session_vars, upstream_vars>>
    /\ UNCHANGED mcp_vars

\* The name of the task a call spawns.
NewTask(req) ==
    IF pc[req.stream_id] = "idle" THEN req.stream_id
    ELSE CHOOSE t \in ExtraTasks : pc[t] = "idle"

\* The credential is cloned under the lock and a task is spawned, whether or
\* not a task of the same stream identifier exists.
ChatStream(req) ==
    /\ req \in pending
    /\ api_key.some
    /\ \E t \in Tasks : pc[t] = "idle" /\ (t = req.stream_id \/ t \in ExtraTasks)
    /\ pending' = pending \ {req}
    /\ returned' = [returned EXCEPT ![req.stream_id] = "Ok"]
    /\ task_key' = [task_key EXCEPT ![NewTask(req)] = api_key]
    /\ request' = [request EXCEPT ![NewTask(req)] = req]
    /\ pc' = [pc EXCEPT ![NewTask(req)] = "spawned"]
    /\ UNCHANGED <<api_key, overflow_checks, published, delivered, sent, listening>>
    /\ UNCHANGED <<session_vars, upstream_vars>>
    /\ UNCHANGED mcp_vars

(***************************************************************************)
(* run_chat_stream, one action per stretch between two awaits, and the     *)
(* error arm of the task spawned by chat_stream                            *)
(***************************************************************************)
\* An emit on one topic shared by all streams.
Publish_SharedTopic(sid, evs) ==
    /\ published' = [published EXCEPT !["s1"] = @ \o evs]
    /\ delivered' = [delivered EXCEPT !["s1"] = IF listening["s1"] THEN @ \o evs ELSE @]

\* app.emit(&format!("chat-event-{}", stream_id), ..) of the task sid: the
\* events are handed to the event system on the topic of the task's stream
\* identifier, which delivers them if a subscriber listens.
Publish(sid, evs) ==
    /\ published' = [published EXCEPT ![Topic(sid)] = @ \o evs]
    /\ delivered' = [delivered EXCEPT ![Topic(sid)] = IF listening[Topic(sid)] THEN @ \o evs ELSE @]

\* A task that goes straight to the request without announcing the model.
TaskStart_Silent(sid) ==
    /\ pc[sid] = "spawned"
    /\ pc' = [pc EXCEPT ![sid] = "sending"]
    /\ sent' = [sent EXCEPT ![sid] =
                    HttpRequest(task_key[sid].v,
                                select_model(request[sid].model, request[sid].messages),
                                BuildTools(request[sid].tools, FALSE).tools)]
    /\ UNCHANGED <<api_key, overflow_checks, pending, returned, request, task_key, listening, published, delivered>>
    /\ UNCHANGED <<session_vars, upstream_vars>>
    /\ UNCHANGED mcp_vars

\* A task that reads the shared credential again when it sends.
TaskStart_RereadKey(sid) ==
    /\ pc[sid] = "spawned"
    /\ Publish(sid, <<ModelSelectedEvent(select_model(request[sid].model,
                                                      request[sid].messages))>>)
    /\ pc' = [pc EXCEPT ![sid] = "sending"]
    /\ sent' = [sent EXCEPT ![sid] =
                    HttpRequest(api_key.v,
                                select_model(request[sid].model, request[sid].messages),
                                BuildTools(request[sid].tools, FALSE).tools)]
    /\ UNCHANGED <<api_key, overflow_checks, pending, returned, request, task_key, listening>>
    /\ UNCHANGED <<session_vars, upstream_vars>>
    /\ UNCHANGED mcp_vars

\* Up to the await on send(): the model is selected and announced, the body
\* is built and the request is handed to send().  A panic while the tools
\* are built ends the task with nothing sent.
TaskStart(sid) ==
    /\ pc[sid] = "spawned"
    /\ Publish(sid, <<ModelSelectedEvent(select_model(request[sid].model,
                                                      request[sid].messages))>>)
    /\ \E built \in {BuildTools(request[sid].tools, overflow_checks)} :
          IF built.panicked
          THEN /\ pc' = [pc EXCEPT ![sid] = "panicked"]
               /\ sent' = sent
          ELSE /\ pc' = [pc EXCEPT ![sid] = "sending"]
               /\ sent' = [sent EXCEPT ![sid] =
                               HttpRequest(task_key[sid].v,
                                           select_model(request[sid].model,
                                                        request[sid].messages),
                                           built.tools)]
    /\ UNCHANGED <<api_key, overflow_checks, pending, returned, request, task_key, listening>>
    /\ UNCHANGED <<session_vars, upstream_vars>>
    /\ UNCHANGED mcp_vars

\* run_chat_stream returned Err(e): the spawned task emits the error event.
FailWith(sid, e) ==
    /\ Publish(sid, <<ErrorEvent(e)>>)
    /\ pc' = [pc EXCEPT ![sid] = "returned_err"]

\* send() fails.
SendFails(sid) ==
    /\ pc[sid] = "sending"
    /\ FailWith(sid, "Request failed")
    /\ UNCHANGED <<api_key, overflow_checks, pending, returned, request, task_key, sent, listening>>
    /\ UNCHANGED <<session_vars, upstream_vars>>
    /\ UNCHANGED mcp_vars

\* send() resolves with a response whose status is not a success: the task
\* goes on to read the body of the response and waits for it.
ResponseNotSuccess(sid) ==
    /\ pc[sid] = "sending"
    /\ pc' = [pc EXCEPT ![sid] = "error_body"]
    /\ UNCHANGED <<api_key, overflow_checks, pending, returned, request, task_key, sent, listening,
                   published, delivered>>
    /\ UNCHANGED <<session_vars, upstream_vars>>
    /\ UNCHANGED mcp_vars

\* response.text() resolves, with the body or (unwrap_or_default) with the
\* empty text when it could not be read: the function returns the error
\* made of the status and that text.
ErrorBody(sid) ==
    /\ pc[sid] = "error_body"
    /\ FailWith(sid, "API error")
    /\ UNCHANGED <<api_key, overflow_checks, pending, returned, request, task_key, sent, listening>>
    /\ UNCHANGED <<session_vars, upstream_vars>>
    /\ UNCHANGED mcp_vars

\* The response has a success status: the locals of the loop are created.
ResponseOk(sid) ==
    /\ pc[sid] = "sending"
    /\ \E sc \in Bodies(request[sid]) :
          /\ script' = [script EXCEPT ![sid] = sc]
          /\ wire' = [wire EXCEPT ![sid] = ScriptBytes(sc)]
          /\ frame_ends' = [frame_ends EXCEPT ![sid] = FrameEnds(sc)]
    /\ pos' = [pos EXCEPT ![sid] = 0]
    /\ buffer' = [buffer EXCEPT ![sid] = NewSession.buffer]
    /\ total_usage' = [total_usage EXCEPT ![sid] = NewSession.total_usage]
    /\ current_tool_id' = [current_tool_id EXCEPT ![sid] = NewSession.current_tool_id]
    /\ current_tool_name' = [current_tool_name EXCEPT ![sid] = NewSession.current_tool_name]
    /\ current_tool_input' = [current_tool_input EXCEPT ![sid] = NewSession.current_tool_input]
    /\ pc' = [pc EXCEPT ![sid] = "streaming"]
    /\ UNCHANGED <<api_key, overflow_checks, pending, returned, request, task_key, sent, listening, published, delivered>>
    /\ UNCHANGED mcp_vars

ChunkSizes(left) == {n \in 1..left : n <= MaxChunk \/ n = BigChunk \/ (n = left /\ n < BigChunk)}

\* stream.next() yields Ok(chunk): one pass of the outer loop.
RecvChunk(sid) ==
    /\ pc[sid] = "streaming"
    /\ \E n \in ChunkSizes(Len(wire[sid]) - pos[sid]) :
        \E se \in {ProcessChunk(Session(sid), overflow_checks,
                                 SubSeq(wire[sid], pos[sid] + 1, pos[sid] + n))} :
              /\ pos' = [pos EXCEPT ![sid] = @ + n]
              /\ buffer' = [buffer EXCEPT ![sid] = se.buffer]
              /\ total_usage' = [total_usage EXCEPT ![sid] = se.total_usage]
              /\ current_tool_id' = [current_tool_id EXCEPT ![sid] = se.current_tool_id]
              /\ current_tool_name' = [current_tool_name EXCEPT ![sid] = se.current_tool_name]
              /\ current_tool_input' = [current_tool_input EXCEPT ![sid] = se.current_tool_input]
              /\ Publish(sid, se.out)
              /\ pc' = [pc EXCEPT ![sid] = IF se.panicked THEN "panicked" ELSE "streaming"]
    /\ UNCHANGED <<api_key, overflow_checks, pending, returned, request, task_key, sent, listening,
                   script, wire, frame_ends>>
    /\ UNCHANGED mcp_vars

\* A read error that is reported while the loop goes on reading.
RecvError_Continue(sid) ==
    /\ pc[sid] = "streaming"
    /\ Publish(sid, <<ErrorEvent("Stream error")>>)
    /\ UNCHANGED <<api_key, overflow_checks, pending, returned, pc, request, task_key, sent, listening>>
    /\ UNCHANGED <<session_vars, upstream_vars>>
    /\ UNCHANGED mcp_vars

\* stream.next() yields Err: the `?` returns it.
RecvError(sid) ==
    /\ pc[sid] = "streaming"
    /\ FailWith(sid, "Stream error")
    /\ UNCHANGED <<api_key, overflow_checks, pending, returned, request, task_key, sent, listening>>
    /\ UNCHANGED <<session_vars, upstream_vars>>
    /\ UNCHANGED mcp_vars

\* An end of stream that decodes what is left in the buffer as a last frame.
StreamEnd_Flush(sid) ==
    /\ pc[sid] = "streaming"
    /\ pos[sid] = Len(wire[sid])
    /\ \E se \in {ProcessChunk(Session(sid), overflow_checks, <<NL, NL>>)} :
          /\ buffer' = [buffer EXCEPT ![sid] = se.buffer]
          /\ total_usage' = [total_usage EXCEPT ![sid] = se.total_usage]
          /\ current_tool_id' = [current_tool_id EXCEPT ![sid] = se.current_tool_id]
          /\ current_tool_name' = [current_tool_name EXCEPT ![sid] = se.current_tool_name]
          /\ current_tool_input' = [current_tool_input EXCEPT ![sid] = se.current_tool_input]
          /\ Publish(sid, se.out)
    /\ pc' = [pc EXCEPT ![sid] = "returned_ok"]
    /\ UNCHANGED <<api_key, overflow_checks, pending, returned, request, task_key, sent, listening>>
    /\ UNCHANGED upstream_vars
    /\ UNCHANGED mcp_vars

\* stream.next() yields None: the loop ends and the function returns Ok(()).
StreamEnd(sid) ==
    /\ pc[sid] = "streaming"
    /\ pos[sid] = Len(wire[sid])
    /\ pc' = [pc EXCEPT ![sid] = "returned_ok"]
    /\ UNCHANGED <<api_key, overflow_checks, pending, returned, request, task_key, sent, listening, published, delivered>>
    /\ UNCHANGED <<session_vars, upstream_vars>>
    /\ UNCHANGED mcp_vars

Next ==
    \/ \E key \in Keys : SetApiKey(key)
    \/ ClearApiKey
    \/ \E req \in pending : ChatStreamNoKey(req)
    \/ \E req \in pending : ChatStream(req)
    \/ \E sid \in Tasks : TaskStart(sid)
    \/ \E sid \in Tasks : SendFails(sid)
    \/ \E sid \in Tasks : ResponseNotSuccess(sid)
    \/ \E sid \in Tasks : ErrorBody(sid)
    \/ \E sid \in Tasks : ResponseOk(sid)
    \/ \E sid \in Tasks : RecvChunk(sid)
    \/ \E sid \in Tasks : RecvError(sid)
    \/ \E sid \in Tasks : StreamEnd(sid)

Spec == Init /\ [][Next]_vars

(***************************************************************************)
(* Two streams in flight at once: both requests are submitted and their    *)
(* tasks interleave at every await.                                        *)
(***************************************************************************)
InitTwo ==
    /\ api_key = NoKey
    /\ listening = [s \in StreamIds |-> TRUE]
    /\ pending = {ChatRequest("s1", None, AskTool, NoTools),
                  ChatRequest("s2", None, AskCount, NoTools)}
    /\ InitCommon

NextTwo ==
    \/ \E key \in Keys : SetApiKey(key)
    \/ \E req \in pending : ChatStream(req)
    \/ \E sid \in Tasks : TaskStart(sid)
    \/ \E sid \in Tasks : SendFails(sid)
    \/ \E sid \in Tasks : ResponseNotSuccess(sid)
    \/ \E sid \in Tasks : ErrorBody(sid)
    \/ \E sid \in Tasks : ResponseOk(sid)
    \/ \E sid \in Tasks : RecvChunk(sid)
    \/ \E sid \in Tasks : RecvError(sid)
    \/ \E sid \in Tasks : StreamEnd(sid)

SpecTwo == InitTwo /\ [][NextTwo]_vars

(***************************************************************************)
(* One stream while the caller sets, replaces and clears the credential.   *)
(***************************************************************************)
TwoKeys == {"k1", "k2"}

InitKeys ==
    /\ api_key = NoKey
    /\ listening = [s \in StreamIds |-> TRUE]
    /\ pending = {ChatRequest("s1", None, AskText, NoTools)}
    /\ InitCommon

NextKeys ==
    \/ \E key \in TwoKeys : SetApiKey(key)
    \/ ClearApiKey
    \/ \E req \in pending : ChatStreamNoKey(req)
    \/ \E req \in pending : ChatStream(req)
    \/ \E sid \in Tasks : TaskStart(sid)
    \/ \E sid \in Tasks : SendFails(sid)
    \/ \E sid \in Tasks : ResponseNotSuccess(sid)
    \/ \E sid \in Tasks : ErrorBody(sid)
    \/ \E sid \in Tasks : ResponseOk(sid)
    \/ \E sid \in Tasks : RecvChunk(sid)
    \/ \E sid \in Tasks : RecvError(sid)
    \/ \E sid \in Tasks : StreamEnd(sid)

SpecKeys == InitKeys /\ [][NextKeys]_vars

(***************************************************************************)
(* One stream whose subscriber comes and goes while it runs.               *)
(***************************************************************************)
InitDelivery ==
    /\ api_key = NoKey
    /\ listening = [s \in StreamIds |-> TRUE]
    /\ pending = {ChatRequest("s1", None, AskText, NoTools)}
    /\ InitCommon

NextDelivery ==
    \/ \E key \in Keys : SetApiKey(key)
    \/ \E req \in pending : ChatStream(req)
    \/ Listen("s1")
    \/ Unlisten("s1")
    \/ \E sid \in Tasks : TaskStart(sid)
    \/ \E sid \in Tasks : SendFails(sid)
    \/ \E sid \in Tasks : ResponseNotSuccess(sid)
    \/ \E sid \in Tasks : ErrorBody(sid)
    \/ \E sid \in Tasks : ResponseOk(sid)
    \/ \E sid \in Tasks : RecvChunk(sid)
    \/ \E sid \in Tasks : RecvError(sid)
    \/ \E sid \in Tasks : StreamEnd(sid)

SpecDelivery == InitDelivery /\ [][NextDelivery]_vars

(***************************************************************************)
(* One stream whose body opens, overwrites and closes tool calls, counts   *)
(* cache tokens, carries frames without a data line or ends inside a frame.*)
(***************************************************************************)
InitBlocks ==
    /\ api_key = NoKey
    /\ listening = [s \in StreamIds |-> TRUE]
    /\ pending = {ChatRequest("s1", None, AskBlocks, NoTools)}
    /\ InitCommon

NextBlocks ==
    \/ \E key \in Keys : SetApiKey(key)
    \/ \E req \in pending : ChatStream(req)
    \/ \E sid \in Tasks : TaskStart(sid)
    \/ \E sid \in Tasks : SendFails(sid)
    \/ \E sid \in Tasks : ResponseNotSuccess(sid)
    \/ \E sid \in Tasks : ErrorBody(sid)
    \/ \E sid \in Tasks : ResponseOk(sid)
    \/ \E sid \in Tasks : RecvChunk(sid)
    \/ \E sid \in Tasks : RecvError(sid)
    \/ \E sid \in Tasks : StreamEnd(sid)

SpecBlocks == InitBlocks /\ [][NextBlocks]_vars

(***************************************************************************)
(* The request as run_chat_stream prepares it: the preferences, message    *)
(* lists and tool lists a caller may submit, taken up to the send.         *)
(***************************************************************************)
S_opus == <<"o", "p", "u", "s">>
ModelSamples ==
    {None, Some(S_haiku), Some(S_sonnet), Some(S_auto), Some(S_opus),
     Some(<<"H", "a", "i", "k", "u">>), Some(<<"A", "U", "T", "O">>), Some(<<>>)}

Structured == JArray(<<JObject(<<<<S_type, JString(S_text)>>, <<S_text, JString(<<"f", "i", "x">>)>>>>)>>)
MessageSamples ==
    {<<>>,
     <<Message("user", JString(<<"h", "e", "l", "l", "o">>))>>,
     <<Message("user", JString(<<>>))>>,
     <<Message("user", JString(<<"P", "l", "e", "a", "s", "e", " ", "R", "e", "v", "i", "e", "w">>))>>,
     <<Message("user", JString(<<"Q", "A">>))>>,
     <<Message("user", JString(<<"U+00DC", "b", "e", "r", "s", "e", "t", "z", "e", " ", "d", "a", "s">>))>>,
     <<Message("user", JString(<<"U+041F", "U+0435", "U+0440", "U+0435", "U+0432", "U+043E", "U+0434">>))>>,
     <<Message("user", JString(<<"U+041F", "U+0415", "U+0420", "U+0415", "U+0412", "U+041E", "U+0414">>))>>,
     <<Message("user", JString(<<"h", "e", "l", "l", "U+039F", "U+03A3">>))>>,
     <<Message("user", JString(<<"a", "q", "u", "a">>))>>,
     <<Message("user", Structured)>>,
     <<Message("user", JNull)>>,
     <<Message("user", JString(<<"f", "i", "x">>)), Message("user", JString(<<"h", "e", "l", "l", "o">>))>>,
     <<Message("user", JString(<<"h", "e", "l", "l", "o">>)), Message("user", JString(<<"T", "r", "a", "n", "s", "l", "a", "t", "e">>))>>,
     <<Message("user", JString(<<"e", "d", "i", "t">>)), Message("user", Structured)>>,
     <<Message("user", Structured), Message("user", JString(<<"o", "k">>))>>}

Field(k, v) == <<k, v>>
Tool0 == EmptyObject
Tool1 == JObject(<<Field(S_name, JString(<<"a">>))>>)
Tool2 == JObject(<<Field(S_name, JString(<<"b">>)), Field(S_text, JString(<<"d">>))>>)
Tool3 == JObject(<<Field(S_name, JString(<<"c">>)), Field(S_text, JString(<<"d">>)),
                   Field(S_input_tokens, EmptyObject)>>)
ToolStr == JString(<<"t">>)
ToolKinds == {Tool0, Tool1, Tool2, Tool3, ToolStr}
ToolSamples ==
    {NoTools, Some(<<>>), Some(<<Tool3, Tool3, Tool3>>), Some(<<Tool3, Tool3, Tool3, Tool3>>)}
        \cup {Some(<<a>>) : a \in ToolKinds}
        \cup {Some(<<a, b>>) : a \in ToolKinds, b \in ToolKinds}

RequestSamples ==
    {ChatRequest("s1", m, msgs, NoTools) : m \in ModelSamples, msgs \in MessageSamples}
        \cup {ChatRequest("s1", Some(S_haiku), <<>>, t) : t \in ToolSamples}

InitRequest ==
    /\ api_key = NoKey
    /\ listening = [s \in StreamIds |-> TRUE]
    /\ pending \in {{r} : r \in RequestSamples}
    /\ InitCommon

NextRequest ==
    \/ \E key \in Keys : SetApiKey(key)
    \/ ClearApiKey
    \/ \E req \in pending : ChatStreamNoKey(req)
    \/ \E req \in pending : ChatStream(req)
    \/ \E sid \in Tasks : TaskStart(sid)

SpecRequest == InitRequest /\ [][NextRequest]_vars

(***************************************************************************)
(* Vocabulary of the properties                                            *)
(***************************************************************************)
Terminal(e) == e.event_type \in {"done", "error"}
OfKind(evs, kind) == SelectSeq(evs, LAMBDA e : e.event_type = kind)
Last(q) == q[Len(q)]

\* What the decoding loop emitted (everything after model_selected).
Decoded(sid) == IF published[sid] = <<>> THEN <<>> ELSE Tail(published[sid])

\* The frames of the body that have been delivered completely.
Completed(sid) ==
    {k \in 1..Len(script[sid]) : script[sid][k].kind # "open" /\ frame_ends[sid][k] <= pos[sid]}
CompletedFrames(sid) == SubSeq(script[sid], 1, Cardinality(Completed(sid)))
AllDelivered(sid) == pc[sid] \in {"streaming", "returned_ok"} /\ pos[sid] = Len(wire[sid])

SlotClosed(sid) ==
    /\ ~current_tool_id[sid].some
    /\ ~current_tool_name[sid].some
    /\ current_tool_input[sid] = <<>>

\* C1: once done or error has been published for a stream, no further event
\* is published for it (so a terminal event can only be the last event).
C1_NothingAfterTerminal ==
    \A sid \in StreamIds :
        \A i \in 1..Len(published[sid]) :
            Terminal(published[sid][i]) => i = Len(published[sid])

\* C2: when the task of a started stream has returned (the body ended, or a
\* failure ended it), done or error has been published for that stream.
C2_EndPublishesTerminal ==
    \A sid \in StreamIds :
        pc[sid] \in {"returned_ok", "returned_err"} =>
            \E i \in 1..Len(published[sid]) : Terminal(published[sid][i])

\* C3: model_selected is published at most once per stream and before every
\* other event of the stream: it is the first event and no other one.
C3_ModelSelectedFirstAndOnce ==
    \A sid \in StreamIds :
        \A i \in 1..Len(published[sid]) :
            (published[sid][i].event_type = "model_selected") <=> (i = 1)

\* C3 witness: a stream that published text and then failed in mid-stream.
C3_Witness ==
    \E sid \in StreamIds :
        /\ pc[sid] = "returned_err"
        /\ OfKind(published[sid], "text") # <<>>
        /\ Last(published[sid]).event_type = "error"

\* C4: however the body was cut into chunks, the events the decoder has
\* published when the body is consumed are those it publishes for the body
\* delivered as one chunk.
C4_ChunkIndependent ==
    \A sid \in StreamIds :
        pc[sid] = "returned_ok" =>
            Decoded(sid) = ProcessChunk(NewSession, overflow_checks, wire[sid]).out

\* C5: a body content_block_start(tool_use, id, name), input_json_delta
\* fragments, content_block_stop publishes exactly one tool_use event, with
\* that id, that name and the parse of the concatenated fragments, and leaves
\* the slot closed with empty partial text.
IsToolCall(sc) ==
    /\ Len(sc) >= 2
    /\ sc[1].kind = "tool_start"
    /\ sc[Len(sc)].kind = "block_stop"
    /\ \A k \in 2..(Len(sc) - 1) : sc[k].kind = "json_delta"
Fragments(sc) == Flatten([k \in 1..(Len(sc) - 2) |-> sc[k + 1].s1])
C5_ToolCallPublishedOnce ==
    \A sid \in StreamIds :
        (IsToolCall(script[sid]) /\ AllDelivered(sid)) =>
            /\ Decoded(sid) =
                   <<ToolUseEvent(script[sid][1].s1, script[sid][1].s2,
                                  UnwrapOrEmptyObject(from_str(Fragments(script[sid]))))>>
            /\ SlotClosed(sid)

\* C6: in every session state, a content_block_delta line of type
\* input_json_delta publishes nothing and changes nothing but the partial
\* input text, to which its fragment is appended.
FragmentSamples == {<<"{", "\"", "q", "\"", ":">>, <<"7">>, <<"\"", "x", "\"", "}">>, <<>>}
JsonDeltaLine(frag) == DATA_PREFIX \o FrameJson(JsonDelta(frag))
C6_JsonDeltaPublishesNothing ==
    \A sid \in StreamIds : \A frag \in FragmentSamples :
        ProcessLine(Session(sid), overflow_checks, JsonDeltaLine(frag))
            = [Session(sid) EXCEPT !.current_tool_input = @ \o frag]

\* C6 witness: a fragment was received with no tool call open: it is in the
\* partial text and the decoder has published nothing.
C6_Witness ==
    \E sid \in StreamIds :
        /\ pc[sid] = "streaming"
        /\ Completed(sid) = {1}
        /\ script[sid][1].kind = "json_delta"
        /\ ~current_tool_id[sid].some
        /\ current_tool_input[sid] = script[sid][1].s1
        /\ Decoded(sid) = <<>>

\* C7: in every session state with a tool call open whose text does not
\* parse, a content_block_stop line publishes tool_use with the slot's id and
\* name and an empty object, publishes no error, closes the slot, and the
\* next line is decoded as usual.
BlockStopLine == DATA_PREFIX \o FrameJson(BlockStop)
TextLine(text) == DATA_PREFIX \o FrameJson(TextDelta(text))
C7_UnparsableInputGivesEmptyObject ==
    \A sid \in StreamIds :
        ( /\ current_tool_id[sid].some
          /\ current_tool_name[sid].some
          /\ ~from_str(current_tool_input[sid]).some ) =>
            ProcessLines(Session(sid), overflow_checks, <<BlockStopLine, TextLine(<<"k">>)>>)
                = [Session(sid) EXCEPT
                       !.current_tool_id = NoContent,
                       !.current_tool_name = NoContent,
                       !.current_tool_input = <<>>,
                       !.out = <<ToolUseEvent(current_tool_id[sid].v,
                                              current_tool_name[sid].v, EmptyObject),
                                 TextEvent(<<"k">>)>>]

\* C7 witness: a call with no fragment and a call with unparsable text were
\* both published with an empty object, and the text after them was relayed.
C7_Witness ==
    \E sid \in StreamIds :
        /\ AllDelivered(sid)
        /\ Decoded(sid) = <<ToolUseEvent(T1, LOOKUP, EmptyObject),
                            ToolUseEvent(T2, LOOKUP, EmptyObject),
                            TextEvent(<<"o", "k">>)>>

\* C8: each usage event is followed at once by done, and carries the sum of
\* input_tokens of the message_start frames and the sum of output_tokens of
\* the message_delta frames that precede its message_stop frame; every
\* message_stop frame delivered has its usage event.
AddU64(a, b) ==
    LET s1 == a[1] + b[1]
        s2 == a[2] + b[2] + (s1 \div LIMB)
        s3 == a[3] + b[3] + (s2 \div LIMB)
        s4 == a[4] + b[4] + (s3 \div LIMB)
    IN  <<s1 % LIMB, s2 % LIMB, s3 % LIMB, s4 % LIMB>>
RECURSIVE SumBefore(_, _, _)
SumBefore(sc, k, kind) ==
    IF k <= 1 THEN U64Zero
    ELSE IF sc[k - 1].kind = kind
         THEN AddU64(SumBefore(sc, k - 1, kind), DecimalU64(sc[k - 1].s1, 1, U64Zero).v)
         ELSE SumBefore(sc, k - 1, kind)
Widen(n) == <<n[1], n[2], 0, 0>>
StopsUpTo(sc, k) == Cardinality({m \in 1..k : sc[m].kind = "message_stop"})
UsagesUpTo(evs, i) == Cardinality({m \in 1..i : evs[m].event_type = "usage"})
C8_UsageIsSumThenDone ==
    \A sid \in StreamIds :
        LET evs == published[sid]
            sc == script[sid]
        IN  /\ UsagesUpTo(evs, Len(evs))
                   = Cardinality({k \in Completed(sid) : sc[k].kind = "message_stop"})
            /\ \A i \in 1..Len(evs) :
                  evs[i].event_type = "usage" =>
                      /\ i < Len(evs)
                      /\ evs[i + 1].event_type = "done"
                      /\ \E k \in 1..Len(sc) :
                            /\ sc[k].kind = "message_stop"
                            /\ StopsUpTo(sc, k) = UsagesUpTo(evs, i)
                            /\ Widen(evs[i].usage.v.input_tokens)
                                   = SumBefore(sc, k, "message_start")
                            /\ Widen(evs[i].usage.v.output_tokens)
                                   = SumBefore(sc, k, "message_delta")

\* C9: the text events published for a stream are, one for one and in order,
\* the texts of the text_delta frames delivered so far.
C9_TextRelayedInOrder ==
    \A sid \in StreamIds :
        LET texts == OfKind(published[sid], "text")
            deltas == SelectSeq(CompletedFrames(sid), LAMBDA f : f.kind = "text_delta")
        IN  /\ Len(texts) = Len(deltas)
            /\ \A i \in 1..Len(texts) : texts[i].content = Some(deltas[i].s1)

\* C10: in every session state a "data: [DONE]" line changes nothing and
\* publishes nothing, and for a body that is only that line the decoder
\* publishes no event (the only event that can follow model_selected is the
\* error of a failed read).
C10_DoneSentinelIgnored ==
    \A sid \in StreamIds :
        /\ ProcessLine(Session(sid), overflow_checks, DoneLine) = Session(sid)
        /\ script[sid] = <<Raw(DoneLine)>> =>
               \A i \in 1..Len(Decoded(sid)) :
                   Decoded(sid)[i].event_type = "error" /\ pc[sid] = "returned_err"

\* C10 witness: the body "data: [DONE]" was consumed to its end and only
\* model_selected was published.
C10_Witness ==
    \E sid \in StreamIds :
        /\ script[sid] = <<Raw(DoneLine)>>
        /\ pc[sid] = "returned_ok"
        /\ Decoded(sid) = <<>>
        /\ Len(published[sid]) = 1

\* C11: a stream has an error event exactly when its task ended on a
\* transport error (failed send, non-success status, failed chunk read); it
\* then has exactly one, and it is the last event of the stream: the ended
\* task decodes and publishes nothing more.
ErrorCount(sid) == Len(OfKind(published[sid], "error"))
C11_TransportErrorStopsDecoding ==
    \A sid \in StreamIds :
        /\ ErrorCount(sid) > 0 => pc[sid] = "returned_err"
        /\ pc[sid] = "returned_err" =>
               /\ ErrorCount(sid) = 1
               /\ Last(published[sid]).event_type = "error"

\* C11 witness: a chunk read failed while a tool call was open and whole
\* frames of the body had not been delivered yet.
C11_Witness ==
    \E sid \in StreamIds :
        /\ pc[sid] = "returned_err"
        /\ current_tool_id[sid].some
        /\ current_tool_input[sid] # <<>>
        /\ \E k \in 1..Len(script[sid]) :
              frame_ends[sid][k] > pos[sid] /\ script[sid][k].kind = "block_stop"
        /\ Last(published[sid]) = ErrorEvent("Stream error")

\* C12: a chat_stream call that fails at setup (no credential is set) has
\* exactly one event published for its stream, an error event, and no
\* request is sent for it.
C12_SetupErrorPublishesOneError ==
    \A sid \in StreamIds :
        returned[sid] = "Err" =>
            /\ Len(published[sid]) = 1
            /\ published[sid][1].event_type = "error"
            /\ ~sent[sid].some

\* C13: in every state of a decoding session, a data line that does not parse
\* (cut short, followed by more text, holding a number beyond f64 or a
\* number with a zero before its first digit, a raw control character or a
\* lone surrogate escape), or whose
\* document has no type, a type that is not a string or a type that is not
\* one of the six kinds, publishes nothing and changes nothing, and the line
\* after it is decoded as usual.
IgnoredLines ==
    {<<"d", "a", "t", "a", ":", " ", "{", "o", "o", "p", "s">>,
     <<"d", "a", "t", "a", ":", " ">>,
     <<"d", "a", "t", "a", ":", " ", "{", "\"", "t", "y", "p", "e", "\"", ":", "\"", "m", "e", "s", "s", "a", "g", "e", "_", "s", "t", "o", "p", "\"", "}", " ", "x">>,
     <<"d", "a", "t", "a", ":", " ", "{", "\"", "t", "y", "p", "e", "\"", ":", "\"", "p", "i", "n", "g", "\"", "}">>,
     <<"d", "a", "t", "a", ":", " ", "{", "\"", "t", "e", "x", "t", "\"", ":", "\"", "x", "\"", "}">>,
     <<"d", "a", "t", "a", ":", " ", "{", "\"", "t", "y", "p", "e", "\"", ":", "7", ",", "\"", "d", "e", "l", "t", "a", "\"", ":", "{", "\"", "t", "y", "p", "e", "\"", ":", "\"", "t", "e", "x", "t", "_", "d", "e", "l", "t", "a", "\"", ",", "\"", "t", "e", "x", "t", "\"", ":", "\"", "x", "\"", "}", "}">>,
     <<"d", "a", "t", "a", ":", " ", "[", "\"", "m", "e", "s", "s", "a", "g", "e", "_", "s", "t", "o", "p", "\"", "]">>,
     <<"d", "a", "t", "a", ":", " ", "{", "\"", "t", "y", "p", "e", "\"", ":", "\"", "M", "e", "s", "s", "a", "g", "e", "_", "S", "t", "o", "p", "\"", "}">>,
     <<"d", "a", "t", "a", ":", " ", "{", "\"", "t", "y", "p", "e", "\"", ":", "\"", "e", "r", "r", "o", "r", "\"", ",", "\"", "e", "r", "r", "o", "r", "\"", ":", "{", "\"", "t", "y", "p", "e", "\"", ":", "\"", "o", "v", "e", "r", "l", "o", "a", "d", "e", "d", "_", "e", "r", "r", "o", "r", "\"", "}", "}">>,
     <<"d", "a", "t", "a", ":", " ", "{", "\"", "t", "y", "p", "e", "\"", ":", "\"", "m", "e", "s", "s", "a", "g", "e", "_", "s", "t", "o", "p", "\"", ",", "\"", "x", "\"", ":", "1", "e", "4", "0", "0", "}">>,
     <<"d", "a", "t", "a", ":", " ", "{", "\"", "t", "y", "p", "e", "\"", ":", "\"", "m", "e", "s", "s", "a", "g", "e", "_", "s", "t", "o", "p", "\"", ",", "\"", "x", "\"", ":", "\"", "a", "U+0008", "b", "\"", "}">>,
     <<"d", "a", "t", "a", ":", " ", "{", "\"", "t", "y", "p", "e", "\"", ":", "\"", "m", "e", "s", "s", "a", "g", "e", "_", "s", "t", "o", "p", "\"", ",", "\"", "x", "\"", ":", "\"", "\\", "u", "d", "8", "3", "d", "\"", "}">>,
     <<"d", "a", "t", "a", ":", " ", "{", "\"", "t", "y", "p", "e", "\"", ":", "\"", "m", "e", "s", "s", "a", "g", "e", "_", "s", "t", "o", "p", "\"", ",", "\"", "x", "\"", ":", "0", "1", "}">>}
C13_NextLine == TextLine(<<"k">>)
C13_UnknownLinesIgnored ==
    \A sid \in StreamIds :
        pc[sid] = "streaming" =>
            \A bad \in IgnoredLines :
                ProcessLines(Session(sid), overflow_checks, <<bad, C13_NextLine>>)
                    = [Session(sid) EXCEPT !.out = <<TextEvent(<<"k">>)>>]

\* C13 witness: a body with a ping frame, a comment line, a line cut in
\* two and a line holding an array was delivered, a tool call being none of
\* them; the text frame after them is the only event decoded.
C13_Witness ==
    \E sid \in StreamIds :
        /\ AllDelivered(sid)
        /\ Len(script[sid]) = 4
        /\ script[sid][1].kind = "raw"
        /\ script[sid][2].kind = "raw"
        /\ Decoded(sid) = <<TextEvent(<<"z">>)>>
        /\ OfKind(published[sid], "error") = <<>>

\* What a prepared stream announced and what it put in the request body.
Prepared(sid) == pc[sid] \in {"sending", "panicked"}
Announced(sid) == published[sid][1].content.v

\* C14: with preference "haiku" the haiku model is selected, and with
\* "sonnet" or any value other than "auto", absent and "haiku" the sonnet
\* model, whatever the message list is.
Fixed(requested) == requested.some /\ requested.v # S_auto
C14_FixedPreferenceDecides ==
    \A sid \in StreamIds :
        (Prepared(sid) /\ Fixed(request[sid].model)) =>
            LET want == IF request[sid].model.v = S_haiku THEN MODEL_HAIKU ELSE MODEL_SONNET
            IN  /\ published[sid] = <<ModelSelectedEvent(want)>>
                /\ pc[sid] = "sending" => sent[sid].model = want
                /\ \A msgs \in MessageSamples :
                       select_model(request[sid].model, msgs) = want

\* C14 witness: an unknown preference with a last message that has no
\* keyword was announced as the sonnet model.
C14_Witness ==
    \E sid \in StreamIds :
        /\ pc[sid] = "sending"
        /\ request[sid].model = Some(S_opus)
        /\ request[sid].messages = <<Message("user", JString(<<"h", "e", "l", "l", "o">>))>>
        /\ Announced(sid) = MODEL_SONNET

\* C15: with preference "auto" or absent, the haiku model is selected if and
\* only if the list is not empty, its last message is a plain string and
\* the lowercased string contains no keyword; otherwise the sonnet model.
\* The list and its last message alone select the same model.
PlainWithoutKeyword(msgs) ==
    /\ msgs # <<>>
    /\ Last(msgs).content.t = "string"
    /\ \A kw \in SonnetKeywords : ~contains(to_lowercase(Last(msgs).content.s), kw)
C15_AutoSelectsByLastMessage ==
    \A sid \in StreamIds :
        (Prepared(sid) /\ ~Fixed(request[sid].model)) =>
            LET msgs == request[sid].messages
                want == IF PlainWithoutKeyword(msgs) THEN MODEL_HAIKU ELSE MODEL_SONNET
            IN  /\ published[sid] = <<ModelSelectedEvent(want)>>
                /\ msgs # <<>> =>
                       select_model(request[sid].model, <<Last(msgs)>>) = want

\* C15 witness: with no preference, a keyword in capitals in the last
\* message selected the sonnet model although the first message has none.
C15_Witness ==
    \E sid \in StreamIds :
        /\ pc[sid] = "sending"
        /\ ~request[sid].model.some
        /\ Len(request[sid].messages) = 2
        /\ request[sid].messages[1].content = JString(<<"h", "e", "l", "l", "o">>)
        /\ request[sid].messages[2].content = JString(<<"T", "r", "a", "n", "s", "l", "a", "t", "e">>)
        /\ Announced(sid) = MODEL_SONNET

\* C16: for a request with a non-empty tool list, preparing the request does
\* not panic, and the tools of the body are the request's tools, the last
\* one carrying cache_control = {"type": "ephemeral"} and every other one
\* passed through as it was.
C16_OnlyLastToolMarked ==
    \A sid \in StreamIds :
        LET tools == request[sid].tools IN
        (Prepared(sid) /\ tools.some /\ tools.v # <<>>) =>
            /\ pc[sid] = "sending"
            /\ sent[sid].tools.some
            /\ Len(sent[sid].tools.v) = Len(tools.v)
            /\ \A n \in 1..Len(tools.v) :
                  IF n = Len(tools.v)
                  THEN tools.v[n].t = "object" =>
                           Index(sent[sid].tools.v[n], S_cache_control) = Ephemeral
                  ELSE sent[sid].tools.v[n] = tools.v[n]

\* C17: with two streams in flight, whenever a stream stands at a frame
\* boundary of its body (the start and the end included), the events
\* published under its identifier are model_selected, then the events of a
\* session decoding the delivered bytes alone, then the error of its own
\* failed read if it had one; and its buffer, slot and tally are those of
\* that session.
Solo(sid) == ProcessChunk(NewSession, overflow_checks, Take(wire[sid], pos[sid]))
AtBoundary(sid) ==
    \/ pos[sid] = 0
    \/ \E k \in 1..Len(frame_ends[sid]) : frame_ends[sid][k] = pos[sid]
Started(sid) ==
    pc[sid] \in {"sending", "error_body", "streaming", "returned_ok", "returned_err"}
OwnError(sid) ==
    IF pc[sid] # "returned_err" THEN <<>>
    ELSE IF wire[sid] # <<>> THEN <<ErrorEvent("Stream error")>>
    ELSE <<Last(published[sid])>>
C17_StreamsIsolated ==
    \A sid \in StreamIds :
        (Started(sid) /\ AtBoundary(sid)) =>
            /\ published[sid] =
                   <<ModelSelectedEvent(select_model(request[sid].model, request[sid].messages))>>
                       \o Solo(sid).out \o OwnError(sid)
            /\ Session(sid) = [Solo(sid) EXCEPT !.out = <<>>]

\* C17 witness: both streams are in mid-body at once, one with a tool call
\* open and a partial frame buffered, the other with a count tallied and a
\* partial frame buffered.
C17_Witness ==
    /\ pc["s1"] = "streaming" /\ pc["s2"] = "streaming"
    /\ current_tool_id["s1"] = Some(T1) /\ buffer["s1"] # <<>>
    /\ total_usage["s2"].output_tokens = <<3, 0>> /\ buffer["s2"] # <<>>
    /\ ~current_tool_id["s2"].some
    /\ total_usage["s1"].output_tokens = U32Zero

\* C18: the credential a stream uses is the shared one at the moment its
\* chat_stream call is accepted; it is never replaced afterwards, it is the
\* one put in the request sent, and a step that sets or clears the shared
\* credential changes nothing of a stream: not its task, its request sent,
\* its session or its published events.
CredentialStep(sid) ==
    /\ (returned[sid] = "none" /\ returned'[sid] = "Ok") => task_key'[sid] = api_key
    /\ returned[sid] = "Ok" => task_key'[sid] = task_key[sid]
    /\ (~sent[sid].some /\ sent'[sid].some) => sent'[sid].x_api_key = task_key[sid].v
    /\ sent[sid].some => sent'[sid] = sent[sid]
    /\ api_key' # api_key =>
           /\ pc'[sid] = pc[sid]
           /\ published'[sid] = published[sid]
           /\ Session(sid)' = Session(sid)
C18_CredentialReadOnce == [][\A sid \in StreamIds : CredentialStep(sid)]_vars

\* C18 witness: a stream that was started with one credential has published
\* its text and its end while the shared credential is another one, and the
\* request it sent carries the first.
C18_Witness ==
    \E sid \in StreamIds :
        /\ pc[sid] = "returned_ok"
        /\ task_key[sid] = Some("k1")
        /\ api_key = Some("k2")
        /\ sent[sid].x_api_key = "k1"
        /\ Decoded(sid) = <<TextEvent(<<"a">>), UsageEvent(NewSession.total_usage), DoneEvent>>

\* C19: whether or not the events of a stream could be delivered, the task
\* does not abort, and the events handed over for the stream and its
\* session are those of a session whose every delivery succeeded on the
\* bytes received so far, followed by the error of its own failed read if
\* it had one.
Running(sid) == pc[sid] \in {"streaming", "returned_ok", "returned_err", "panicked"}
C19_DeliveryFailureIgnored ==
    \A sid \in StreamIds :
        Running(sid) =>
            /\ pc[sid] # "panicked"
            /\ Decoded(sid) = Solo(sid).out \o OwnError(sid)
            /\ Session(sid) = [Solo(sid) EXCEPT !.out = <<>>, !.listening = listening[sid]]

\* C19 witness: the text event did not reach a subscriber; the usage and
\* done events after it were handed over and delivered all the same.
C19_Witness ==
    \E sid \in StreamIds :
        /\ pc[sid] = "returned_ok"
        /\ published[sid][1].event_type = "model_selected"
        /\ Decoded(sid) = <<TextEvent(<<"a">>), UsageEvent(NewSession.total_usage), DoneEvent>>
        /\ delivered[sid] = <<published[sid][1], UsageEvent(NewSession.total_usage), DoneEvent>>

\* C20: no step of a decoding session makes any of the four tally counters
\* smaller.
GE32(a, b) == a[2] > b[2] \/ (a[2] = b[2] /\ a[1] >= b[1])
NotSmaller(new, old) ==
    /\ GE32(new.input_tokens, old.input_tokens)
    /\ GE32(new.output_tokens, old.output_tokens)
    /\ GE32(UnwrapOr0U32(new.cache_read_tokens), UnwrapOr0U32(old.cache_read_tokens))
    /\ GE32(UnwrapOr0U32(new.cache_write_tokens), UnwrapOr0U32(old.cache_write_tokens))
C20_TallyMonotonic ==
    [][\A sid \in StreamIds :
          pc[sid] = "streaming" => NotSmaller(total_usage'[sid], total_usage[sid])]_vars

(***************************************************************************)
(* The tool-call slot as the frames of the body describe it                *)
(***************************************************************************)
Live(sid) == pc[sid] \in {"streaming", "returned_ok"}
NumCompleted(sid) == Cardinality(Completed(sid))
IsToolStart(f) == f.kind = "tool_start" \/ (f.kind = "block_start" /\ f.s1 = S_tool_use)
IsSlotFrame(f) == IsToolStart(f) \/ f.kind = "block_stop"

\* The string a member of a content block holds: absent when the member is
\* missing or is not a string.
MemberStr(text) ==
    IF text # <<>> /\ text[1] = "\"" THEN Some(SubSeq(text, 2, Len(text) - 1)) ELSE NoContent
StartId(f) == IF f.kind = "tool_start" THEN Some(f.s1) ELSE MemberStr(f.s2)
StartName(f) == IF f.kind = "tool_start" THEN Some(f.s2) ELSE MemberStr(f.s3)

\* Among the first k frames, the most recent content_block_start of type
\* tool_use that no content_block_stop follows; 0 when there is none.
LastSlotFrame(sc, k) ==
    IF \E j \in 1..k : IsSlotFrame(sc[j])
    THEN CHOOSE j \in 1..k : IsSlotFrame(sc[j]) /\ \A m \in (j + 1)..k : ~IsSlotFrame(sc[m])
    ELSE 0
OpenStart(sc, k) ==
    IF LastSlotFrame(sc, k) = 0 THEN 0
    ELSE IF sc[LastSlotFrame(sc, k)].kind = "block_stop" THEN 0
    ELSE LastSlotFrame(sc, k)
OpenId(sc, k) == IF OpenStart(sc, k) = 0 THEN NoContent ELSE StartId(sc[OpenStart(sc, k)])
OpenName(sc, k) == IF OpenStart(sc, k) = 0 THEN NoContent ELSE StartName(sc[OpenStart(sc, k)])

\* C21: a session holds one tool-call slot; after the frames decoded so far
\* its id and name are those of the most recent content_block_start of type
\* tool_use that no content_block_stop has followed, and both are absent
\* when there is no such frame, so after any content_block_stop.
C21_OneSlotMostRecentStart ==
    \A sid \in StreamIds :
        Live(sid) =>
            /\ current_tool_id[sid] = OpenId(script[sid], NumCompleted(sid))
            /\ current_tool_name[sid] = OpenName(script[sid], NumCompleted(sid))

\* C21 witness: a call is open under the id of the second of two starts.
C21_Witness ==
    \E sid \in StreamIds :
        /\ Live(sid)
        /\ current_tool_id[sid] = Some(T2)
        /\ \E j \in 1..NumCompleted(sid) :
              /\ j < OpenStart(script[sid], NumCompleted(sid))
              /\ IsToolStart(script[sid][j])

\* The tool_use events the frames of the body describe: one for each
\* content_block_stop reached while a call with an id and a name is open,
\* its input parsed from the fragments between that call's start and the stop.
RefFragments(sc, q, p) ==
    Flatten([j \in 1..(p - q - 1) |->
        IF sc[q + j].kind = "json_delta" THEN sc[q + j].s1 ELSE <<>>])
PublishingStops(sc, k) ==
    {p \in 1..k : /\ sc[p].kind = "block_stop"
                  /\ OpenId(sc, p - 1).some
                  /\ OpenName(sc, p - 1).some}
NthStop(sc, k, i) ==
    CHOOSE p \in PublishingStops(sc, k) :
        Cardinality({m \in PublishingStops(sc, k) : m <= p}) = i
RefInput(sc, p) == UnwrapOrEmptyObject(from_str(RefFragments(sc, OpenStart(sc, p - 1), p)))
RefToolUse(sc, p) == ToolUseEvent(OpenId(sc, p - 1).v, OpenName(sc, p - 1).v, RefInput(sc, p))
RefToolUses(sc, k) ==
    [i \in 1..Cardinality(PublishingStops(sc, k)) |-> RefToolUse(sc, NthStop(sc, k, i))]
ToolUses(sid) == OfKind(published[sid], "tool_use")

\* The starts of type tool_use that another such start followed before any
\* content_block_stop.
Overwritten(sc, k) ==
    {j \in 1..k : /\ IsToolStart(sc[j])
                  /\ \E q \in (j + 1)..k :
                        /\ IsToolStart(sc[q])
                        /\ \A m \in (j + 1)..(q - 1) : ~IsSlotFrame(sc[m])}

\* C22: when a content_block_start of type tool_use arrived while a call
\* was open, the published tool_use events are exactly those of the calls
\* open at a content_block_stop: none for the overwritten call, and the one
\* of the next stop carries the second call's id and name and the fragments
\* received after the second start only.
C22_SecondStartDiscardsFirst ==
    \A sid \in StreamIds :
        (Live(sid) /\ Overwritten(script[sid], NumCompleted(sid)) # {}) =>
            ToolUses(sid) = RefToolUses(script[sid], NumCompleted(sid))

\* C22 witness: after two starts and one stop the only tool_use event is the
\* second call's, with the second call's input.
C22_Witness ==
    \E sid \in StreamIds :
        /\ Live(sid)
        /\ Overwritten(script[sid], NumCompleted(sid)) # {}
        /\ Len(ToolUses(sid)) = 1
        /\ ToolUses(sid)[1].tool_use.v.id = T2
        /\ ToolUses(sid)[1].tool_use.v.input
               = JObject(<<<<(<<"b">>), JNumber(<<"2">>)>>>>)

\* C26: the input of each published tool_use event is parsed from the
\* fragments received between that call's own content_block_start and its
\* content_block_stop, and from nothing else: fragments received while no
\* call was open, or for a call that was closed, overwritten or never
\* published, are not part of it.
C26_InputFromOwnFragments ==
    \A sid \in StreamIds :
        Live(sid) =>
            \A i \in 1..Len(ToolUses(sid)) :
                /\ i <= Cardinality(PublishingStops(script[sid], NumCompleted(sid)))
                /\ ToolUses(sid)[i].tool_use.v.input
                       = RefInput(script[sid], NthStop(script[sid], NumCompleted(sid), i))

\* C26 witness: fragments arrived for a call that was never published and
\* while no call was open; the call published after them carries its own
\* fragment only.
C26_Witness ==
    \E sid \in StreamIds :
        /\ Live(sid)
        /\ Len(ToolUses(sid)) = 1
        /\ ToolUses(sid)[1].tool_use.v.input = JArray(<<JNumber(<<"2">>)>>)
        /\ \E j \in 1..NumCompleted(sid) :
              /\ script[sid][j].kind = "json_delta"
              /\ OpenStart(script[sid], j) = 0
        /\ \E j \in 1..NumCompleted(sid) :
              /\ script[sid][j].kind = "json_delta"
              /\ OpenStart(script[sid], j) # 0
              /\ ~OpenId(script[sid], j).some

\* C27: tool_use events are published for the calls whose content_block_start
\* carried a string id and a string name, under that id and name, and for no
\* other: a content_block_stop reached with either missing publishes
\* nothing, leaves both id and name absent, and no error event is published
\* while the stream goes on.
C27_NoToolUseWithoutIdAndName ==
    \A sid \in StreamIds :
        Live(sid) =>
            /\ Len(ToolUses(sid)) = Cardinality(PublishingStops(script[sid], NumCompleted(sid)))
            /\ \A i \in 1..Len(ToolUses(sid)) :
                  /\ Some(ToolUses(sid)[i].tool_use.v.id)
                         = OpenId(script[sid], NthStop(script[sid], NumCompleted(sid), i) - 1)
                  /\ Some(ToolUses(sid)[i].tool_use.v.name)
                         = OpenName(script[sid], NthStop(script[sid], NumCompleted(sid), i) - 1)
            /\ OfKind(published[sid], "error") = <<>>
            /\ (NumCompleted(sid) > 0 /\ script[sid][NumCompleted(sid)].kind = "block_stop") =>
                  (~current_tool_id[sid].some /\ ~current_tool_name[sid].some)

\* C27 witness: a call whose id was a number was opened and stopped; nothing
\* was published for it, and the text sent after it was.
C27_Witness ==
    \E sid \in StreamIds :
        /\ pc[sid] = "returned_ok"
        /\ \E p \in 1..NumCompleted(sid) :
              /\ script[sid][p].kind = "block_stop"
              /\ OpenStart(script[sid], p - 1) # 0
              /\ ~OpenId(script[sid], p - 1).some
              /\ OpenName(script[sid], p - 1).some
        /\ Decoded(sid) = <<TextEvent(<<"o", "k">>)>>

\* Sum of one counter (member of the descriptor) over the message_start
\* frames among the first k frames of a body; a frame lacking the counter
\* adds nothing.
RECURSIVE SumCounter(_, _, _)
SumCounter(sc, k, field) ==
    IF k = 0 THEN U64Zero
    ELSE IF sc[k].kind = "message_start" /\ sc[k][field] # NoMember
         THEN AddU64(SumCounter(sc, k - 1, field), DecimalU64(sc[k][field], 1, U64Zero).v)
         ELSE SumCounter(sc, k - 1, field)

\* C23: both cache counters of every published usage event are present; after
\* the frames decoded so far cache_read_tokens is the sum of
\* cache_read_input_tokens and cache_write_tokens the sum of
\* cache_creation_input_tokens over the message_start frames (zero at the
\* start, unchanged by a message_start lacking the counter), and
\* input_tokens is the sum of input_tokens over them: message_delta frames
\* change none of the three.
C23_CacheCountersSumOverMessageStart ==
    \A sid \in StreamIds :
        /\ \A i \in 1..Len(published[sid]) :
              published[sid][i].event_type = "usage" =>
                  /\ published[sid][i].usage.v.cache_read_tokens.some
                  /\ published[sid][i].usage.v.cache_write_tokens.some
        /\ Live(sid) =>
              /\ total_usage[sid].cache_read_tokens.some
              /\ total_usage[sid].cache_write_tokens.some
              /\ Widen(total_usage[sid].cache_read_tokens.v)
                     = SumCounter(script[sid], NumCompleted(sid), "s2")
              /\ Widen(total_usage[sid].cache_write_tokens.v)
                     = SumCounter(script[sid], NumCompleted(sid), "s3")
              /\ Widen(total_usage[sid].input_tokens)
                     = SumCounter(script[sid], NumCompleted(sid), "s1")

\* Frames none of whose lines starts with "data: ": event and comment
\* lines, the empty frame, "data:" with no space or with a tab after it, a
\* space before "data: ", capitals, the prefix later in a line.
NoDataFrames ==
    {<<"e", "v", "e", "n", "t", ":", " ", "p", "i", "n", "g">>,
     <<":", " ", "k", "e", "e", "p", "a", "l", "i", "v", "e">>,
     <<>>,
     <<"d", "a", "t", "a", ":", "{", "\"", "t", "y", "p", "e", "\"", ":", "\"", "m", "e", "s", "s", "a", "g", "e", "_", "s", "t", "o", "p", "\"", "}">>,
     <<" ", "d", "a", "t", "a", ":", " ", "{", "\"", "t", "y", "p", "e", "\"", ":", "\"", "m", "e", "s", "s", "a", "g", "e", "_", "s", "t", "o", "p", "\"", "}">>,
     <<"D", "A", "T", "A", ":", " ", "{", "\"", "t", "y", "p", "e", "\"", ":", "\"", "m", "e", "s", "s", "a", "g", "e", "_", "s", "t", "o", "p", "\"", "}">>,
     <<"i", "d", ":", " ", "1", "\n", "r", "e", "t", "r", "y", ":", " ", "5", "\n", "e", "v", "e", "n", "t", ":", " ", "m", "e", "s", "s", "a", "g", "e", "_", "s", "t", "o", "p">>,
     <<"d", "a", "t", "a", ":", "\t", "{", "\"", "t", "y", "p", "e", "\"", ":", "\"", "c", "o", "n", "t", "e", "n", "t", "_", "b", "l", "o", "c", "k", "_", "s", "t", "o", "p", "\"", "}", "\r", "\n", "e", "v", "e", "n", "t", ":", " ", "d", "a", "t", "a", ":", " ", "x">>}
NoDataLine(frame) ==
    \A i \in 1..Len(lines(frame)) : ~strip_prefix(lines(frame)[i], DATA_PREFIX).some
NextFrameHead == <<"d", "a", "t">>
OnlyNoData(sc, k) == \A j \in 1..k : sc[j].kind = "raw" /\ NoDataLine(sc[j].s1)

\* C24: a complete frame with no line starting with "data: " is taken out of
\* the buffer and does nothing else: decoded at a frame boundary of any
\* session it publishes nothing, leaves the slot and the tally as they were
\* and leaves in the buffer what followed its delimiter; a stream that has
\* received only such frames so far is as it was at the start.
C24_FrameWithoutDataIsNoOp ==
    \A sid \in StreamIds :
        /\ (pc[sid] = "streaming" /\ buffer[sid] = <<>>) =>
              \A frame \in NoDataFrames :
                  /\ NoDataLine(frame)
                  /\ ProcessChunk(Session(sid), overflow_checks,
                                  utf8_encode(frame \o <<NL, NL>> \o NextFrameHead))
                         = [Session(sid) EXCEPT !.buffer = NextFrameHead]
        /\ (Live(sid) /\ OnlyNoData(script[sid], NumCompleted(sid))) =>
              /\ Decoded(sid) = <<>>
              /\ [Session(sid) EXCEPT !.buffer = <<>>] = NewSession
              /\ find_nlnl(buffer[sid]) = 0

\* C24 witness: an event line, a comment, an empty frame and a "data:" line
\* without the space were received as four frames, a fifth is under way, and
\* nothing was published.
C24_Witness ==
    \E sid \in StreamIds :
        /\ pc[sid] = "streaming"
        /\ NumCompleted(sid) = 4
        /\ OnlyNoData(script[sid], 4)
        /\ script[sid][3].s1 = <<>>
        /\ buffer[sid] # <<>>
        /\ Decoded(sid) = <<>>

\* The bytes received so far and what follows their last blank-line
\* delimiter.
Received(sid) == Take(wire[sid], pos[sid])
\* buffer.find("\n\n") takes delimiters from the left: in a run of line
\* feeds the first two are a delimiter, the next two the next one.
RunStart(bytes, i) ==
    CHOOSE a \in 1..i : /\ \A j \in a..i : bytes[j] = NL
                        /\ (a = 1 \/ bytes[a - 1] # NL)
IsDelimiter(bytes, i) ==
    /\ bytes[i] = NL
    /\ bytes[i + 1] = NL
    /\ (i - RunStart(bytes, i)) % 2 = 0
LastDelimiterEnd(bytes) ==
    IF \E i \in 1..(Len(bytes) - 1) : IsDelimiter(bytes, i)
    THEN 1 + CHOOSE i \in 1..(Len(bytes) - 1) :
                 /\ IsDelimiter(bytes, i)
                 /\ \A j \in (i + 1)..(Len(bytes) - 1) : ~IsDelimiter(bytes, j)
    ELSE 0
AfterLastDelimiter(bytes) == Drop(bytes, LastDelimiterEnd(bytes))

\* C25: after each chunk the buffer holds no blank-line delimiter and is the
\* text of the input received so far from its last delimiter on, and the
\* events published are those of the frames of that input, decoded in the
\* order they appear, each once.
C25_BufferIsSuffixAfterLastDelimiter ==
    \A sid \in StreamIds :
        Live(sid) =>
            /\ find_nlnl(buffer[sid]) = 0
            /\ buffer[sid] = from_utf8_lossy(AfterLastDelimiter(Received(sid)))
            /\ Decoded(sid) = Solo(sid).out

\* The session that has decoded the input up to its last delimiter, as one
\* chunk.
UpToLastDelimiter(sid) ==
    ProcessChunk(NewSession, overflow_checks, Take(wire[sid], LastDelimiterEnd(wire[sid])))

\* C28: when the stream has ended, what was published and the slot and tally
\* are those of the input up to its last blank-line delimiter; the bytes
\* after it are still in the buffer, undecoded, whatever they contain, and no
\* tool_use event was published for a call still open.
C28_TailNeverDecoded ==
    \A sid \in StreamIds :
        pc[sid] = "returned_ok" =>
            /\ Decoded(sid) = UpToLastDelimiter(sid).out
            /\ Session(sid) = [UpToLastDelimiter(sid) EXCEPT
                                  !.out = <<>>,
                                  !.buffer = from_utf8_lossy(AfterLastDelimiter(wire[sid]))]
            /\ ToolUses(sid) = RefToolUses(script[sid], NumCompleted(sid))

\* C28 witness: a stream ended inside a frame holding a whole
\* content_block_stop line while a call with an id and a name was open;
\* nothing was published for the call, the line is still in the buffer.
C28_Witness ==
    \E sid \in StreamIds :
        /\ pc[sid] = "returned_ok"
        /\ Last(script[sid]).kind = "open"
        /\ buffer[sid] = Last(script[sid]).s1
        /\ strip_prefix(lines(buffer[sid])[1], DATA_PREFIX) = Some(FrameJson(BlockStop))
        /\ current_tool_id[sid] = Some(T1)
        /\ current_tool_name[sid] = Some(LOOKUP)
        /\ Decoded(sid) = <<>>

(***************************************************************************)
(* The helper process: spawn_mcp_server, mcp_request, mcp_notify and       *)
(* stop_mcp_server, one action per statement run under the mutex, and the  *)
(* helper that reads lines from its input and answers the requests.        *)
(***************************************************************************)
McpOps == {"spawn", "request", "notify", "stop"}
FirstStep(op) ==
    CASE op = "spawn" -> "spawn_check"
      [] op = "request" -> "request_write"
      [] op = "notify" -> "notify_write"
      [] op = "stop" -> "stop_stdin"
MessageOf(op, c, n) ==
    CASE op = "request" -> RequestLine(c, n)
      [] op = "notify" -> NotificationLine(c, n)
      [] OTHER -> NoLine

\* The frontend invokes a command; requests go through mcp_request and
\* notifications through mcp_notify, each as one line.
McpCall(c, op) ==
    /\ mcp_pc[c] = "idle"
    /\ calls < MaxCalls
    /\ calls' = calls + 1
    /\ mcp_call' = [mcp_call EXCEPT ![c] = [op |-> op, message |-> MessageOf(op, c, calls + 1)]]
    /\ mcp_pc' = [mcp_pc EXCEPT ![c] = "lock"]
    /\ UNCHANGED <<child, stdin, stdout_reader, mutex, mcp_result, mcp_local, helpers>>
    /\ UNCHANGED chat_vars

\* A command that goes on without taking the mutex.
McpLock_NoWait(c) ==
    /\ mcp_pc[c] = "lock"
    /\ mcp_pc' = [mcp_pc EXCEPT ![c] = FirstStep(mcp_call[c].op)]
    /\ UNCHANGED <<child, stdin, stdout_reader, mutex, mcp_call, mcp_result, mcp_local, helpers, calls>>
    /\ UNCHANGED chat_vars

\* state.0.lock(): waits until the mutex is free and takes it.
McpLock(c) ==
    /\ mcp_pc[c] = "lock"
    /\ mutex = "free"
    /\ mutex' = c
    /\ mcp_pc' = [mcp_pc EXCEPT ![c] = FirstStep(mcp_call[c].op)]
    /\ UNCHANGED <<child, stdin, stdout_reader, mcp_call, mcp_result, mcp_local, helpers, calls>>
    /\ UNCHANGED chat_vars

\* The command returns: the guard is dropped and the mutex is free again.
McpReturn(c, result) ==
    /\ mcp_result' = [mcp_result EXCEPT ![c] = result]
    /\ mcp_pc' = [mcp_pc EXCEPT ![c] = "idle"]
    /\ mutex' = "free"

\* if server.child.is_some() { return Ok("Server already running") }
SpawnAlready(c) ==
    /\ mcp_pc[c] = "spawn_check"
    /\ child.some
    /\ McpReturn(c, McpOk("Server already running", NoLine))
    /\ UNCHANGED <<child, stdin, stdout_reader, mcp_call, mcp_local, helpers, calls>>
    /\ UNCHANGED chat_vars

\* find_python finds no interpreter, the import check cannot be run, the
\* import check fails, or the process cannot be started: the command returns
\* Err with the message of that step, the state as it was.
SpawnErrors ==
    {"Python not found",
     "Failed to check for mcp_server_sdlxliff",
     "mcp-server-sdlxliff not installed",
     "Failed to spawn MCP server"}
SpawnFails(c) ==
    /\ mcp_pc[c] = "spawn_check"
    /\ ~child.some
    /\ \E e \in SpawnErrors : McpReturn(c, McpErr(e))
    /\ UNCHANGED <<child, stdin, stdout_reader, mcp_call, mcp_local, helpers, calls>>
    /\ UNCHANGED chat_vars

\* Command::new(..).spawn() succeeds: a new process with piped stdin and
\* stdout, held in the local `child`.  Both pipes were asked for with
\* Stdio::piped(), so child.stdin.take() and child.stdout.take() are Some
\* and the two ok_or(..)? after them do not return.
Unstarted == {h \in HelperIds : helpers[h].status = "none"}
SpawnProcess(c) ==
    /\ mcp_pc[c] = "spawn_check"
    /\ ~child.some
    /\ Unstarted # {}
    /\ \E h \in {CHOOSE x \in Unstarted : \A y \in Unstarted : x <= y} :
          /\ helpers' = [helpers EXCEPT ![h] = [@ EXCEPT !.status = "running"]]
          /\ mcp_local' = [mcp_local EXCEPT ![c] = h]
    /\ mcp_pc' = [mcp_pc EXCEPT ![c] = "spawn_child"]
    /\ UNCHANGED <<child, stdin, stdout_reader, mutex, mcp_call, mcp_result, calls>>
    /\ UNCHANGED chat_vars

\* server.child = Some(child);
SpawnSetChild(c) ==
    /\ mcp_pc[c] = "spawn_child"
    /\ child' = Handle(mcp_local[c])
    /\ mcp_pc' = [mcp_pc EXCEPT ![c] = "spawn_stdin"]
    /\ UNCHANGED <<stdin, stdout_reader, mutex, mcp_call, mcp_result, mcp_local, helpers, calls>>
    /\ UNCHANGED chat_vars

\* server.stdin = Some(stdin);
SpawnSetStdin(c) ==
    /\ mcp_pc[c] = "spawn_stdin"
    /\ stdin' = Handle(mcp_local[c])
    /\ mcp_pc' = [mcp_pc EXCEPT ![c] = "spawn_reader"]
    /\ UNCHANGED <<child, stdout_reader, mutex, mcp_call, mcp_result, mcp_local, helpers, calls>>
    /\ UNCHANGED chat_vars

\* server.stdout_reader = Some(reader); Ok("MCP server started")
SpawnSetReader(c) ==
    /\ mcp_pc[c] = "spawn_reader"
    /\ stdout_reader' = Handle(mcp_local[c])
    /\ mcp_local' = [mcp_local EXCEPT ![c] = 0]
    /\ McpReturn(c, McpOk("MCP server started", NoLine))
    /\ UNCHANGED <<child, stdin, mcp_call, helpers, calls>>
    /\ UNCHANGED chat_vars

\* writeln!(stdin, "{}", message) and flush: the line is in the helper's
\* input, or the write fails because the helper has exited.
WriteLine(c, after) ==
    IF ~stdin.some
    THEN /\ McpReturn(c, McpErr("No stdin available"))
         /\ UNCHANGED helpers
    ELSE IF helpers[stdin.v].status # "running"
    THEN /\ McpReturn(c, McpErr("Broken pipe"))
         /\ UNCHANGED helpers
    ELSE /\ helpers' = [helpers EXCEPT ![stdin.v] =
                            [@ EXCEPT !.inq = Append(@, mcp_call[c].message)]]
         /\ IF after = "idle"
            THEN McpReturn(c, McpOk("", NoLine))
            ELSE /\ mcp_pc' = [mcp_pc EXCEPT ![c] = after]
                 /\ UNCHANGED <<mutex, mcp_result>>

\* mcp_request, up to the end of the block that writes the line.
RequestWrite(c) ==
    /\ mcp_pc[c] = "request_write"
    /\ WriteLine(c, "request_read")
    /\ UNCHANGED <<child, stdin, stdout_reader, mcp_call, mcp_local, calls>>
    /\ UNCHANGED chat_vars

\* reader.read_line(&mut response): waits for a line of the helper's output
\* and returns it; at end of file (the helper has exited) it returns the
\* empty string.
RequestRead(c) ==
    /\ mcp_pc[c] = "request_read"
    /\ IF ~stdout_reader.some
       THEN /\ McpReturn(c, McpErr("No stdout reader"))
            /\ UNCHANGED helpers
       ELSE \/ /\ helpers[stdout_reader.v].outq # <<>>
               /\ McpReturn(c, McpOk("", Head(helpers[stdout_reader.v].outq)))
               /\ helpers' = [helpers EXCEPT ![stdout_reader.v] = [@ EXCEPT !.outq = Tail(@)]]
            \/ /\ helpers[stdout_reader.v].outq = <<>>
               /\ helpers[stdout_reader.v].status # "running"
               /\ McpReturn(c, McpOk("", EndOfFile))
               /\ UNCHANGED helpers
    /\ UNCHANGED <<child, stdin, stdout_reader, mcp_call, mcp_local, calls>>
    /\ UNCHANGED chat_vars

\* mcp_notify: the line is written and nothing is read.
NotifyWrite(c) ==
    /\ mcp_pc[c] = "notify_write"
    /\ WriteLine(c, "idle")
    /\ UNCHANGED <<child, stdin, stdout_reader, mcp_call, mcp_local, calls>>
    /\ UNCHANGED chat_vars

\* server.stdin = None;
StopClearStdin(c) ==
    /\ mcp_pc[c] = "stop_stdin"
    /\ stdin' = NoHandle
    /\ mcp_pc' = [mcp_pc EXCEPT ![c] = "stop_reader"]
    /\ UNCHANGED <<child, stdout_reader, mutex, mcp_call, mcp_result, mcp_local, helpers, calls>>
    /\ UNCHANGED chat_vars

\* A stop that leaves the reader in place.
StopClearReader_Skip(c) ==
    /\ mcp_pc[c] = "stop_reader"
    /\ mcp_pc' = [mcp_pc EXCEPT ![c] = "stop_child"]
    /\ UNCHANGED <<child, stdin, stdout_reader, mutex, mcp_call, mcp_result, mcp_local, helpers, calls>>
    /\ UNCHANGED chat_vars

\* server.stdout_reader = None;
StopClearReader(c) ==
    /\ mcp_pc[c] = "stop_reader"
    /\ stdout_reader' = NoHandle
    /\ mcp_pc' = [mcp_pc EXCEPT ![c] = "stop_child"]
    /\ UNCHANGED <<child, stdin, mutex, mcp_call, mcp_result, mcp_local, helpers, calls>>
    /\ UNCHANGED chat_vars

\* if let Some(mut child) = server.child.take() { kill; wait; Ok(stopped) }
\* else { Ok("No server running") }
StopTakeChild(c) ==
    /\ mcp_pc[c] = "stop_child"
    /\ child' = NoHandle
    /\ IF child.some
       THEN /\ helpers' = [helpers EXCEPT ![child.v] =
                               [status |-> IF @.status = "running" THEN "killed" ELSE "reaped",
                                inq |-> <<>>, outq |-> <<>>]]
            /\ McpReturn(c, McpOk("MCP server stopped", NoLine))
       ELSE /\ UNCHANGED helpers
            /\ McpReturn(c, McpOk("No server running", NoLine))
    /\ UNCHANGED <<stdin, stdout_reader, mcp_call, mcp_local, calls>>
    /\ UNCHANGED chat_vars

\* The helper reads the next line of its input and, when it is a request,
\* writes the response to it as one line of its output.
HelperAnswers(h) ==
    /\ helpers[h].status = "running"
    /\ helpers[h].inq # <<>>
    /\ helpers' = [helpers EXCEPT ![h] =
                       [@ EXCEPT !.inq = Tail(@),
                                 !.outq = IF Head(helpers[h].inq).kind = "request"
                                          THEN Append(@, ResponseTo(Head(helpers[h].inq)))
                                          ELSE @]]
    /\ UNCHANGED <<child, stdin, stdout_reader, mutex, mcp_pc, mcp_call, mcp_result, mcp_local, calls>>
    /\ UNCHANGED chat_vars

\* The helper exits by itself; what it had not read is lost, what it wrote
\* can still be read.
HelperExits(h) ==
    /\ helpers[h].status = "running"
    /\ helpers' = [helpers EXCEPT ![h] = [@ EXCEPT !.status = "exited", !.inq = <<>>]]
    /\ UNCHANGED <<child, stdin, stdout_reader, mutex, mcp_pc, mcp_call, mcp_result, mcp_local, calls>>
    /\ UNCHANGED chat_vars

InitHelper ==
    /\ api_key = NoKey
    /\ listening = [s \in StreamIds |-> TRUE]
    /\ pending = {}
    /\ InitCommon

NextHelper ==
    \/ \E c \in McpCallers, op \in McpOps : McpCall(c, op)
    \/ \E c \in McpCallers : McpLock(c)
    \/ \E c \in McpCallers : SpawnAlready(c)
    \/ \E c \in McpCallers : SpawnFails(c)
    \/ \E c \in McpCallers : SpawnProcess(c)
    \/ \E c \in McpCallers : SpawnSetChild(c)
    \/ \E c \in McpCallers : SpawnSetStdin(c)
    \/ \E c \in McpCallers : SpawnSetReader(c)
    \/ \E c \in McpCallers : RequestWrite(c)
    \/ \E c \in McpCallers : RequestRead(c)
    \/ \E c \in McpCallers : NotifyWrite(c)
    \/ \E c \in McpCallers : StopClearStdin(c)
    \/ \E c \in McpCallers : StopClearReader(c)
    \/ \E c \in McpCallers : StopTakeChild(c)
    \/ \E h \in HelperIds : HelperAnswers(h)
    \/ \E h \in HelperIds : HelperExits(h)

SpecHelper == InitHelper /\ [][NextHelper]_vars

\* The helper-process state as the claims speak of it.
AllPresent == child.some /\ stdin.some /\ stdout_reader.some
AllAbsent == ~child.some /\ ~stdin.some /\ ~stdout_reader.some
Unreaped == {h \in HelperIds : helpers[h].status \in {"running", "exited"}}
ServerUnchanged ==
    /\ child' = child
    /\ stdin' = stdin
    /\ stdout_reader' = stdout_reader
    /\ helpers' = helpers
Leaves(c, step) == mcp_pc[c] = step /\ mcp_pc'[c] # step

\* What each step of a command does to the helper-process state: a
\* spawn_mcp_server that finds a child starts nothing and changes nothing;
\* stop_mcp_server returns with all three fields absent; mcp_request and
\* mcp_notify without a helper return an error and change nothing.
C29_Steps ==
    \A c \in McpCallers :
        /\ (Leaves(c, "spawn_check") /\ child.some) =>
              /\ ServerUnchanged
              /\ mcp_result'[c] = McpOk("Server already running", NoLine)
        /\ Leaves(c, "stop_child") =>
              /\ AllAbsent'
              /\ mcp_pc'[c] = "idle"
        /\ ((Leaves(c, "request_write") \/ Leaves(c, "notify_write")) /\ AllAbsent) =>
              /\ ServerUnchanged
              /\ mcp_pc'[c] = "idle"
              /\ ~mcp_result'[c].ok

\* C29: whenever the mutex is not held, child, stdin and stdout_reader are
\* all present (for one and the same helper) or all absent, and at most one
\* helper process is alive or unreaped; spawn_mcp_server with a child present
\* starts no process and changes nothing; when stop_mcp_server returns all
\* three are absent; mcp_request and mcp_notify without a helper return an
\* error and change nothing.
C29_HelperStateAllOrNone ==
    /\ [](mutex = "free" =>
              /\ AllPresent \/ AllAbsent
              /\ AllPresent => (child = stdin /\ stdin = stdout_reader)
              /\ Unreaped = IF AllPresent THEN {child.v} ELSE {})
    /\ [][C29_Steps]_vars

\* C29 witness: a helper was started and stopped; after the stop a request
\* found no helper and returned the error, the three fields being absent.
C29_Witness ==
    /\ mutex = "free"
    /\ AllAbsent
    /\ \E h \in HelperIds : helpers[h].status = "killed"
    /\ mcp_pc = [c \in McpCallers |-> "idle"]
    /\ mcp_call["c1"].op = "stop"
    /\ mcp_result["c1"] = McpOk("MCP server stopped", NoLine)
    /\ mcp_call["c2"].op = "request"
    /\ mcp_result["c2"] = McpErr("No stdin available")

\* The request lines a helper has yet to answer and the response lines not
\* yet read from it.
Unanswered(h) == SelectSeq(helpers[h].inq, LAMBDA l : l.kind = "request")
InFlight(h) == Unanswered(h) \o helpers[h].outq
Finished(c) == mcp_pc[c] = "idle" /\ mcp_call[c].op = "request" /\ mcp_result[c].ok

\* C30: mcp_request calls are serialised by the mutex. While a call is
\* between its write and its read it holds the mutex and the only request or
\* response on the helper's pipes is its own; while the mutex is free none
\* is under way; and the line a call returns is the response to its own
\* request (or the end of file of a helper that has exited).
C30_RequestResponsePairsAtomic ==
    /\ \A c \in McpCallers :
          mcp_pc[c] = "request_read" =>
              /\ mutex = c
              /\ stdout_reader.some
              /\ InFlight(stdout_reader.v) \in {<<>>, <<mcp_call[c].message>>,
                                                <<ResponseTo(mcp_call[c].message)>>}
    /\ mutex = "free" => \A h \in HelperIds : InFlight(h) = <<>>
    /\ \A c \in McpCallers :
          Finished(c) =>
              \/ mcp_result[c].line = ResponseTo(mcp_call[c].message)
              \/ /\ mcp_result[c].line = EndOfFile
                 /\ \E h \in HelperIds : helpers[h].status \in {"exited", "reaped"}

\* C30 witness: two requests were under way at once; the one invoked later
\* took the mutex first and has returned with the response to its own
\* request, the other now holds the mutex with its own response waiting.
C30_Witness ==
    /\ Finished("c1")
    /\ mcp_result["c1"].line = ResponseTo(mcp_call["c1"].message)
    /\ mcp_pc["c2"] = "request_read"
    /\ mcp_call["c2"].message.n < mcp_call["c1"].message.n
    /\ helpers[stdout_reader.v].outq = <<ResponseTo(mcp_call["c2"].message)>>
    /\ helpers[stdout_reader.v].status = "running"

====
